---- MODULE Spec2Model ----
(***************************************************************************)
(* A model of the go-ethrelay client (src/testimonium/client.go): the      *)
(* event-replay locator, the Merkle proof builders, the header codec and   *)
(* the write operations with their receipt wait.                           *)
(*                                                                         *)
(* Each component has one record variable; a specification of one          *)
(* component leaves the other components idle.                             *)
(***************************************************************************)
EXTENDS Integers, Sequences, FiniteSets, TLC

VARIABLES loc, prf, cdc, wr

vars == <<loc, prf, cdc, wr>>

----------------------------------------------------------------------------
(* Bytes and byte slices.                                                  *)

Idle == [pc |-> "idle"]

Rep(b, n) == [i \in 1..n |-> b]

\* Go's s[lo:hi] on a slice whose capacity is its length.
Slice(s, lo, hi) == SubSeq(s, lo + 1, hi)

RECURSIVE BytesToNat(_)
BytesToNat(s) ==
    IF Len(s) = 0 THEN 0
    ELSE 256 * BytesToNat(SubSeq(s, 1, Len(s) - 1)) + s[Len(s)]

IsZero(s) == \A i \in 1..Len(s) : s[i] = 0

\* The k-byte big-endian form of n.
NatToBytes(n, k) == [i \in 1..k |-> (n \div (256 ^ (k - i))) % 256]

----------------------------------------------------------------------------
(* uint64 arithmetic, on 8-byte big-endian strings: the offsets of the     *)
(* locator are uint64 values and wrap modulo 2^64.                         *)

U64Len == 8
SmallLen == 3

\* A number of at most SmallLen bytes as a uint64.
U64(n) == Rep(0, U64Len - SmallLen) \o NatToBytes(n, SmallLen)

\* big.Int.SetBytes(word).Uint64(): the low 64 bits of the big-endian word.
SetBytesUint64(word) ==
    IF Len(word) >= U64Len THEN SubSeq(word, Len(word) - U64Len + 1, Len(word))
    ELSE Rep(0, U64Len - Len(word)) \o word

RECURSIVE U64AddCarry(_, _, _)
U64AddCarry(a, b, i) ==
    \* the carry out of byte i (1 = most significant) of a + b
    IF i > U64Len THEN 0
    ELSE (a[i] + b[i] + U64AddCarry(a, b, i + 1)) \div 256

U64Add(a, b) ==
    [i \in 1..U64Len |-> (a[i] + b[i] + U64AddCarry(a, b, i + 1)) % 256]

\* Does the uint64 fit the range of lengths a slice of the model can have?
U64IsSmall(a) == IsZero(SubSeq(a, 1, U64Len - SmallLen))

U64ToNat(a) == BytesToNat(SubSeq(a, U64Len - SmallLen + 1, U64Len))

RECURSIVE U64LeqFrom(_, _, _)
U64LeqFrom(a, b, i) ==
    IF i > U64Len THEN TRUE
    ELSE IF a[i] < b[i] THEN TRUE
    ELSE IF a[i] > b[i] THEN FALSE
    ELSE U64LeqFrom(a, b, i + 1)

U64Leq(a, b) == U64LeqFrom(a, b, 1)

\* The bounds check of s[lo:hi] with uint64 indices: 0 <= lo <= hi <= cap(s).
SliceInRange(s, lo, hi) ==
    /\ U64Leq(lo, hi)
    /\ U64IsSmall(hi)
    /\ U64ToNat(hi) <= Len(s)

SliceU64(s, lo, hi) == Slice(s, U64ToNat(lo), U64ToNat(hi))

----------------------------------------------------------------------------
(* RLP: byte strings and lists, integers as minimal big-endian strings.    *)

RECURSIVE MinBytes(_)
MinBytes(n) == IF n = 0 THEN << >> ELSE Append(MinBytes(n \div 256), n % 256)

RlpHeader(base, len) ==
    IF len < 56 THEN << base + len >>
    ELSE << base + 55 + Len(MinBytes(len)) >> \o MinBytes(len)

RlpString_AlwaysPrefixed(b) == RlpHeader(128, Len(b)) \o b

RlpString(b) ==
    IF Len(b) = 1 /\ b[1] < 128 THEN b
    ELSE RlpHeader(128, Len(b)) \o b

RlpListOf(payload) == RlpHeader(192, Len(payload)) \o payload

RlpUint(n) == RlpString(MinBytes(n))

\* An encoding the model keeps symbolic: the encoded object stands for its bytes.
RlpOf(x) == [rlp |-> x]

----------------------------------------------------------------------------
(* The Merkle-Patricia trie of go-ethereum, as the proof builders use it:  *)
(* Update, NodeIterator, LeafKey, LeafProof.                               *)

Terminator == 16

NilNode == [kind |-> "nil"]
ValueNode(v) == [kind |-> "value", val |-> v]
ShortNode(k, v) == [kind |-> "short", key |-> k, val |-> v]
FullNode(c) == [kind |-> "full", children |-> c]
EmptyChildren == [i \in 0..Terminator |-> NilNode]

RECURSIVE Nibbles(_)
Nibbles(b) ==
    IF Len(b) = 0 THEN << >>
    ELSE << b[1] \div 16, b[1] % 16 >> \o Nibbles(Tail(b))

keybytesToHex(key) == Append(Nibbles(key), Terminator)

HasTerm(hex) == Len(hex) > 0 /\ hex[Len(hex)] = Terminator

RECURSIVE DecodeNibbles(_)
DecodeNibbles(nib) ==
    IF Len(nib) < 2 THEN << >>
    ELSE << 16 * nib[1] + nib[2] >> \o DecodeNibbles(SubSeq(nib, 3, Len(nib)))

hexToKeybytes(hex) ==
    DecodeNibbles(IF HasTerm(hex) THEN SubSeq(hex, 1, Len(hex) - 1) ELSE hex)

hexToCompact(hex) ==
    LET term == HasTerm(hex)
        nib == IF term THEN SubSeq(hex, 1, Len(hex) - 1) ELSE hex
        flag == IF term THEN 32 ELSE 0
    IN  IF Len(nib) % 2 = 1
        THEN << flag + 16 + nib[1] >> \o DecodeNibbles(Tail(nib))
        ELSE << flag >> \o DecodeNibbles(nib)

RECURSIVE PrefixLenFrom(_, _, _)
PrefixLenFrom(a, b, i) ==
    IF i > Len(a) \/ i > Len(b) \/ a[i] # b[i] THEN i - 1
    ELSE PrefixLenFrom(a, b, i + 1)

prefixLen(a, b) == PrefixLenFrom(a, b, 1)

Drop(s, n) == SubSeq(s, n + 1, Len(s))

RECURSIVE insert(_, _, _)
insert(n, key, value) ==
    IF Len(key) = 0 THEN value
    ELSE IF n.kind = "short" THEN
        LET matchlen == prefixLen(key, n.key)
        IN  IF matchlen = Len(n.key)
            THEN ShortNode(n.key, insert(n.val, Drop(key, matchlen), value))
            ELSE LET branch ==
                         FullNode([EmptyChildren EXCEPT
                             ![n.key[matchlen + 1]] =
                                 insert(NilNode, Drop(n.key, matchlen + 1), n.val),
                             ![key[matchlen + 1]] =
                                 insert(NilNode, Drop(key, matchlen + 1), value)])
                 IN  IF matchlen = 0 THEN branch
                     ELSE ShortNode(SubSeq(key, 1, matchlen), branch)
    ELSE IF n.kind = "full" THEN
        FullNode([n.children EXCEPT ![key[1]] = insert(n.children[key[1]], Tail(key), value)])
    ELSE ShortNode(key, value)

\* Trie.Update(key, value) with a non-empty value.
Update(root, key, value) == insert(root, keybytesToHex(key), ValueNode(value))

\* hasher.proofHash: the node with every child replaced by its hash. Every node
\* of a transaction or receipt trie encodes to 32 bytes or more (it holds a
\* transaction or receipt encoding, or the 32-byte hash of a child), so every
\* child is referenced by hash and none is embedded.
RECURSIVE Collapse(_)
Collapse(n) ==
    IF n.kind = "short" THEN
        ShortNode(hexToCompact(n.key),
                  IF n.val.kind = "value" THEN n.val
                  ELSE [kind |-> "hash", of |-> Collapse(n.val)])
    ELSE IF n.kind = "full" THEN
        FullNode([i \in 0..Terminator |->
                    IF n.children[i].kind \in { "nil", "value" } THEN n.children[i]
                    ELSE [kind |-> "hash", of |-> Collapse(n.children[i])]])
    ELSE n

\* Keccak256 of the node's encoding, symbolic.
HashOf(n) == [kind |-> "hash", of |-> Collapse(n)]

\* The leaves in the order NodeIterator.Next(true) visits them, each with its
\* path and the iterator's stack below the value node. The children lo..hi of
\* a full node are visited in index order.
RECURSIVE IterLeaves(_, _, _)
RECURSIVE IterChildren(_, _, _, _, _)
IterLeaves(n, path, stack) ==
    IF n.kind = "value" THEN << [path |-> path, stack |-> stack] >>
    ELSE IF n.kind = "short" THEN IterLeaves(n.val, path \o n.key, Append(stack, n))
    ELSE IF n.kind = "full" THEN IterChildren(n, 0, Terminator, path, Append(stack, n))
    ELSE << >>
IterChildren(n, lo, hi, path, stack) ==
    IF lo = hi THEN IterLeaves(n.children[lo], Append(path, lo), stack)
    ELSE LET mid == (lo + hi) \div 2
         IN  IterChildren(n, lo, mid, path, stack)
                \o IterChildren(n, mid + 1, hi, path, stack)

LeafProof_DropLeaf(stack) == [i \in 1..(Len(stack) - 1) |-> Collapse(stack[i])]

\* nodeIterator.LeafProof: the encodings of the nodes on the stack that are
\* referenced by hash, and of the root.
LeafProof(stack) == [i \in 1..Len(stack) |-> Collapse(stack[i])]

\* Lines 730-738 and 803-811: the first leaf whose key is the path gives the
\* proof; without one, proofNodes stays nil.
FirstLeafProof(leaves, path) ==
    LET hits == { i \in 1..Len(leaves) : hexToKeybytes(leaves[i].path) = path }
    IN  IF hits = {} THEN << >>
        ELSE LeafProof(leaves[CHOOSE i \in hits : \A j \in hits : i <= j].stack)

ProofNodesFor(root, path) == FirstLeafProof(IterLeaves(root, << >>, << >>), path)

----------------------------------------------------------------------------
(* The Merkle proof builders, GenerateMerkleProofForTx and                 *)
(* GenerateMerkleProofForReceipt, one action per remote call and per pass  *)
(* of the trie-building loop.                                              *)

PrfNone == [kind |-> "none", err |-> "", header |-> << >>, value |-> << >>,
            path |-> << >>, proofNodes |-> << >>]
PrfErr(e) == [PrfNone EXCEPT !.kind = "err", !.err = e]
PrfPanic(e) == [PrfNone EXCEPT !.kind = "panic", !.err = e]
PrfOk(header, value, path, nodes) ==
    [kind |-> "ok", err |-> "", header |-> RlpOf(header), value |-> value,
     path |-> path, proofNodes |-> RlpOf(nodes)]

\* txList.GetRlp(i): the encoding of transaction i (0-based).
GetRlp(txList, i) == RlpOf([tx |-> txList[i + 1]])

\* client.TransactionReceipt(tx.Hash()) and receipt.EncodeRLP: the encoding
\* holds the consensus fields, not the transaction hash.
ReceiptOf(tx) == [TxHash |-> tx, Status |-> 1, Logs |-> tx]
EncodeReceiptRLP(receipt) == RlpOf([Status |-> receipt.Status, Logs |-> receipt.Logs])

Finish(result) == [prf EXCEPT !.pc = "done", !.result = result]

\* A variant that picks the receipt at the target's transaction index, as the
\* transaction proof picks its transaction.
SameTx_ByIndex(txReceipt, receipt, i) == txReceipt.TransactionIndex = i

\* Line 789: the receipt fetched in pass i is the one of the target.
SameTx(txReceipt, receipt, i) == txReceipt.TxHash = receipt.TxHash

\* Lines 702-715 and 758-773: the receipt of the target and its block are
\* fetched; an error of either call is returned.
FetchBlock ==
    /\ prf.pc = "start"
    /\ prf' = IF prf.chain.receiptErr THEN Finish(PrfErr("TransactionReceipt"))
              ELSE IF prf.chain.blockErr THEN Finish(PrfErr("BlockByHash"))
              ELSE [prf EXCEPT !.pc = "build"]
    /\ UNCHANGED << loc, cdc, wr >>

\* A variant that keys the trie by the bytes of the index without their
\* encoding.
InsertTx_RawKey ==
    /\ prf.pc = "build" /\ prf.op = "tx"
    /\ prf.i < Len(prf.chain.block.txs)
    /\ prf' = [prf EXCEPT !.i = prf.i + 1,
                          !.trie = Update(prf.trie, MinBytes(prf.i),
                                          GetRlp(prf.chain.block.txs, prf.i))]
    /\ UNCHANGED << loc, cdc, wr >>

\* Lines 716-720: one pass of the loop that fills the transactions trie.
InsertTx ==
    /\ prf.pc = "build" /\ prf.op = "tx"
    /\ prf.i < Len(prf.chain.block.txs)
    /\ prf' = [prf EXCEPT !.i = prf.i + 1,
                          !.trie = Update(prf.trie, RlpUint(prf.i),
                                          GetRlp(prf.chain.block.txs, prf.i))]
    /\ UNCHANGED << loc, cdc, wr >>

\* Lines 722-750: the target's value and path, the walk for its leaf, the result.
ProveTx ==
    /\ prf.pc = "build" /\ prf.op = "tx"
    /\ prf.i >= Len(prf.chain.block.txs)
    /\ LET txList == prf.chain.block.txs
           index == prf.chain.txReceipt.TransactionIndex
           path == RlpUint(index)
       IN  prf' = IF index >= Len(txList) THEN Finish(PrfPanic("index out of range"))
                  ELSE Finish(PrfOk(prf.chain.block.header, GetRlp(txList, index), path,
                                    ProofNodesFor(prf.trie, path)))
    /\ UNCHANGED << loc, cdc, wr >>

\* Lines 774-799: one pass of the loop that fetches a receipt and fills the
\* receipts trie; path and value become those of an index whose receipt
\* carries the hash of the target's receipt. A failed fetch is returned.
InsertReceipt ==
    /\ prf.pc = "build" /\ prf.op = "receipt"
    /\ prf.i < Len(prf.chain.block.txs)
    /\ LET receipt == ReceiptOf(prf.chain.block.txs[prf.i + 1])
           encodedReceipt == EncodeReceiptRLP(receipt)
           key == RlpUint(prf.i)
           hit == SameTx(prf.chain.txReceipt, receipt, prf.i)
       IN  prf' = IF prf.chain.failAt = prf.i + 1
                  THEN Finish(PrfErr("TransactionReceipt"))
                  ELSE [prf EXCEPT !.i = prf.i + 1,
                                   !.fetched = Append(prf.fetched, prf.i),
                                   !.trie = Update(prf.trie, key, encodedReceipt),
                                   !.path = IF hit THEN key ELSE prf.path,
                                   !.value = IF hit THEN encodedReceipt ELSE prf.value]
    /\ UNCHANGED << loc, cdc, wr >>

\* Lines 801-823: the walk for the leaf of the path, the result.
ProveReceipt ==
    /\ prf.pc = "build" /\ prf.op = "receipt"
    /\ prf.i >= Len(prf.chain.block.txs)
    /\ prf' = Finish(PrfOk(prf.chain.block.header, prf.value, prf.path,
                           ProofNodesFor(prf.trie, prf.path)))
    /\ UNCHANGED << loc, cdc, wr >>

----------------------------------------------------------------------------
(* The inputs of the proof builders: what the target chain's node answers. *)

MaxTxs == 3
LargeBlock == 130

Txs == { "a", "b" }

\* Every small block, and one block large enough for two-byte trie keys.
SmallTxLists == UNION { [1..n -> Txs] : n \in 0..MaxTxs }
LargeTxList == [i \in 1..LargeBlock |-> IF i % 2 = 0 THEN "a" ELSE "b"]

\* The trie of a set of (hex key, value) pairs, by its definition: a leaf for
\* one pair, an extension for a common prefix, a branch on the next nibble.
RECURSIVE CommonPrefixLen(_, _)
CommonPrefixLen(keys, n) ==
    IF \E k \in keys : Len(k) <= n THEN n
    ELSE IF \E k1, k2 \in keys : k1[n + 1] # k2[n + 1] THEN n
    ELSE CommonPrefixLen(keys, n + 1)

RECURSIVE TrieOf(_)
TrieOf(pairs) ==
    IF pairs = {} THEN NilNode
    ELSE IF Cardinality(pairs) = 1 THEN
        LET p == CHOOSE q \in pairs : TRUE
        IN  IF Len(p.key) = 0 THEN ValueNode(p.val) ELSE ShortNode(p.key, ValueNode(p.val))
    ELSE LET c == CommonPrefixLen({ p.key : p \in pairs }, 0)
             k0 == (CHOOSE q \in pairs : TRUE).key
         IN  IF c > 0
             THEN ShortNode(SubSeq(k0, 1, c),
                            TrieOf({ [key |-> Drop(p.key, c), val |-> p.val] : p \in pairs }))
             ELSE FullNode([i \in 0..Terminator |->
                     TrieOf({ [key |-> Tail(p.key), val |-> p.val] :
                                p \in { q \in pairs : q.key[1] = i } })])

TxPairs(txList) ==
    { [key |-> keybytesToHex(RlpUint(j)), val |-> GetRlp(txList, j)] :
        j \in 0..(Len(txList) - 1) }

ReceiptPairs(txList) ==
    { [key |-> keybytesToHex(RlpUint(j)),
       val |-> EncodeReceiptRLP(ReceiptOf(txList[j + 1]))] :
        j \in 0..(Len(txList) - 1) }

\* The roots of a header that belongs to other block data than was fetched.
StaleTxRoot == HashOf(TrieOf(TxPairs(<< "stale" >>)))
StaleReceiptRoot == HashOf(TrieOf(ReceiptPairs(<< "stale" >>)))

\* The header of the block as the target chain made it: its roots are those
\* of the tries of the block's transactions and receipts.
BlockHeaderOf(txList, stale) ==
    [TxHash |-> IF stale THEN StaleTxRoot ELSE HashOf(TrieOf(TxPairs(txList))),
     ReceiptHash |-> IF stale THEN StaleReceiptRoot
                     ELSE HashOf(TrieOf(ReceiptPairs(txList)))]

PrfStart(op, txList, target, index, stale, re, be, failAt) ==
    [pc |-> "start", op |-> op,
     chain |-> [receiptErr |-> re, blockErr |-> be, failAt |-> failAt,
                txReceipt |-> [TxHash |-> target, TransactionIndex |-> index],
                block |-> [txs |-> txList, header |-> BlockHeaderOf(txList, stale)]],
     i |-> 0, trie |-> NilNode, path |-> << >>, value |-> << >>, fetched |-> << >>,
     result |-> PrfNone]

InitProof ==
    /\ loc = Idle /\ cdc = Idle /\ wr = Idle
    /\ \/ \E op \in { "tx", "receipt" }, txList \in SmallTxLists, target \in Txs,
             index \in 0..MaxTxs, stale \in BOOLEAN, re \in BOOLEAN, be \in BOOLEAN,
             failAt \in 0..MaxTxs :
            prf = PrfStart(op, txList, target, index, stale, re, be, failAt)
       \/ \E op \in { "tx", "receipt" }, index \in (LargeBlock - 3)..(LargeBlock - 1),
             stale \in BOOLEAN :
            prf = PrfStart(op, LargeTxList, LargeTxList[index + 1], index, stale,
                           FALSE, FALSE, 0)

NextProof == FetchBlock \/ InsertTx \/ ProveTx \/ InsertReceipt \/ ProveReceipt

SpecProof == InitProof /\ [][NextProof]_vars

----------------------------------------------------------------------------
(* Claims about the proof builders. A proof is replayed as the verifying   *)
(* contract replays it: from the root hash, node by node along the path.   *)

compactToHex(compact) ==
    LET base == keybytesToHex(compact)
        cut == IF base[1] < 2 THEN SubSeq(base, 1, Len(base) - 1) ELSE base
    IN  Drop(cut, 2 - (cut[1] % 2))

IsPrefix(a, b) == Len(a) <= Len(b) /\ SubSeq(b, 1, Len(a)) = a

NoValue == [ok |-> FALSE, val |-> << >>]

RECURSIVE Replay(_, _, _, _)
Replay(want, key, nodes, i) ==
    IF i > Len(nodes) THEN NoValue
    ELSE LET n == nodes[i]
         IN  IF [kind |-> "hash", of |-> n] # want THEN NoValue
             ELSE IF n.kind = "full" THEN
                 IF Len(key) = 0 \/ n.children[key[1]].kind # "hash" THEN NoValue
                 ELSE Replay(n.children[key[1]], Tail(key), nodes, i + 1)
             ELSE IF n.kind = "short" THEN
                 LET nk == compactToHex(n.key)
                 IN  IF ~IsPrefix(nk, key) THEN NoValue
                     ELSE IF n.val.kind = "value"
                     THEN IF Len(nk) = Len(key) /\ i = Len(nodes)
                          THEN [ok |-> TRUE, val |-> n.val.val]
                          ELSE NoValue
                     ELSE Replay(n.val, Drop(key, Len(nk)), nodes, i + 1)
             ELSE NoValue

\* The value the proof nodes prove at the path (a byte string) under the root.
VerifyProof(root, path, nodes) == Replay(root, keybytesToHex(path), nodes, 1)

\* C2: for a block with transactions T0..Tn-1 and a target index i < n,
\* GenerateMerkleProofForTx returns Ti's encoding as value and the encoding of
\* i as path, and replaying the proof nodes along the path from the root of
\* the trie of all n (encode(j), encode(Tj)) pairs reaches a leaf holding Ti's
\* encoding.
C2_TxProofSound ==
    (prf.pc = "done" /\ prf.op = "tx" /\ ~prf.chain.receiptErr /\ ~prf.chain.blockErr
       /\ prf.chain.txReceipt.TransactionIndex < Len(prf.chain.block.txs)) =>
        LET i == prf.chain.txReceipt.TransactionIndex
            txList == prf.chain.block.txs
            r == prf.result
        IN  /\ r.kind = "ok"
            /\ r.value = RlpOf([tx |-> txList[i + 1]])
            /\ r.path = RlpUint(i)
            /\ VerifyProof(HashOf(TrieOf(TxPairs(txList))), r.path, r.proofNodes.rlp)
                 = [ok |-> TRUE, val |-> r.value]

C2_Witness ==
    /\ prf.pc = "done" /\ prf.op = "tx" /\ prf.result.kind = "ok"
    /\ Len(prf.chain.block.txs) = LargeBlock
    /\ prf.chain.txReceipt.TransactionIndex = LargeBlock - 1
    /\ Len(prf.result.path) = 2
    /\ Len(prf.result.proofNodes.rlp) >= 3
    /\ VerifyProof(prf.chain.block.header.TxHash, prf.result.path,
                   prf.result.proofNodes.rlp).ok

\* The root the fetched header states for the trie the operation rebuilds.
StatedRoot ==
    IF prf.op = "tx" THEN prf.chain.block.header.TxHash
    ELSE prf.chain.block.header.ReceiptHash

TrieRebuilt ==
    /\ prf.pc = "done" /\ ~prf.chain.receiptErr /\ ~prf.chain.blockErr
    /\ prf.i = Len(prf.chain.block.txs)

\* C3: when the root of the trie rebuilt from the fetched transactions or
\* receipts differs from the root in the fetched header, the operation does
\* not return a proof.
C3_RootMismatchFails ==
    (TrieRebuilt /\ HashOf(prf.trie) # StatedRoot) => prf.result.kind # "ok"

LeafKeys(root) ==
    LET leaves == IterLeaves(root, << >>, << >>)
    IN  { hexToKeybytes(leaves[k].path) : k \in 1..Len(leaves) }

\* C4: when the rebuilt trie has no leaf whose key is the computed path, the
\* operation fails; it never returns successfully with an empty list of proof
\* nodes.
C4_NoLeafFails ==
    /\ (TrieRebuilt /\ prf.result.path \notin LeafKeys(prf.trie)) => prf.result.kind # "ok"
    /\ (prf.pc = "done" /\ prf.result.kind = "ok") => Len(prf.result.proofNodes.rlp) > 0

\* The indices of the block whose receipt carries the target's transaction hash.
ReceiptHits ==
    { j \in 0..(Len(prf.chain.block.txs) - 1) :
        prf.chain.block.txs[j + 1] = prf.chain.txReceipt.TxHash }

\* The indices 0..n-1 in order.
InOrder(n) == [k \in 1..n |-> k - 1]

\* Whether one of the receipt fetches of the loop fails.
FetchFails == prf.chain.failAt \in 1..Len(prf.chain.block.txs)

\* C16: for a block with n transactions, GenerateMerkleProofForReceipt
\* fetches the receipt of each transaction in index order and inserts
\* (encode(i), encode(receipt_i)) for every i; it returns as path and value
\* the key and the encoded receipt of an index whose receipt carries the
\* target's transaction hash, and replaying the returned proof nodes along
\* that path from the root of the rebuilt trie reaches that encoding. When a
\* receipt fetch fails, the operation returns the error and empty outputs.
C16_ReceiptProofSound ==
    prf.op = "receipt" =>
        LET txList == prf.chain.block.txs
            n == Len(txList)
            r == prf.result
        IN  /\ prf.fetched = InOrder(prf.i)
            /\ HashOf(prf.trie)
                  = HashOf(TrieOf(ReceiptPairs(SubSeq(txList, 1, prf.i))))
            /\ (prf.pc = "done" /\ (prf.chain.receiptErr \/ prf.chain.blockErr)) =>
                  /\ r \in { PrfErr("TransactionReceipt"), PrfErr("BlockByHash") }
                  /\ prf.fetched = << >>
            /\ (prf.pc = "done" /\ ~prf.chain.receiptErr /\ ~prf.chain.blockErr
                   /\ FetchFails) =>
                  /\ r = PrfErr("TransactionReceipt")
                  /\ prf.i = prf.chain.failAt - 1
            /\ (prf.pc = "done" /\ ~prf.chain.receiptErr /\ ~prf.chain.blockErr
                   /\ ~FetchFails) =>
                  /\ prf.i = n
                  /\ ReceiptHits # {} =>
                        /\ r.kind = "ok"
                        /\ \E i \in ReceiptHits :
                              /\ r.path = RlpUint(i)
                              /\ r.value = EncodeReceiptRLP(ReceiptOf(txList[i + 1]))
                        /\ VerifyProof(HashOf(prf.trie), r.path, r.proofNodes.rlp)
                             = [ok |-> TRUE, val |-> r.value]

C16_Witness ==
    /\ prf.pc = "done" /\ prf.op = "receipt" /\ prf.result.kind = "ok"
    /\ Len(prf.chain.block.txs) = LargeBlock
    /\ Len(prf.fetched) = LargeBlock
    /\ ReceiptHits # {}
    /\ Len(prf.result.path) = 2
    /\ Len(prf.result.proofNodes.rlp) >= 3
    /\ VerifyProof(HashOf(prf.trie), prf.result.path, prf.result.proofNodes.rlp)
         = [ok |-> TRUE, val |-> prf.result.value]

\* Trie.TryGet: the value stored under a hex key, with whether there is one.
RECURSIVE TrieGet(_, _)
TrieGet(n, key) ==
    IF n.kind = "value" THEN (IF Len(key) = 0 THEN [ok |-> TRUE, val |-> n.val] ELSE NoValue)
    ELSE IF n.kind = "short" THEN
        IF IsPrefix(n.key, key) THEN TrieGet(n.val, Drop(key, Len(n.key))) ELSE NoValue
    ELSE IF n.kind = "full" THEN
        IF Len(key) = 0 THEN NoValue ELSE TrieGet(n.children[key[1]], Tail(key))
    ELSE NoValue

\* C23: GenerateMerkleProofForTx builds the trie by inserting, for every
\* index i of the block's transaction list, the key encode(i) with the value
\* encode(Ti); distinct indices give distinct keys, so the trie holds exactly
\* n leaves; the returned path is the key inserted for the target's
\* transaction index.
C23_TxTrieKeys ==
    (prf.op = "tx" /\ prf.pc \in {"build", "done"}) =>
        LET txList == prf.chain.block.txs
            leaves == IterLeaves(prf.trie, << >>, << >>)
        IN  /\ Len(leaves) = prf.i
            /\ Cardinality({ RlpUint(j) : j \in 0..(prf.i - 1) }) = prf.i
            /\ LeafKeys(prf.trie) = { RlpUint(j) : j \in 0..(prf.i - 1) }
            /\ \A j \in 0..(prf.i - 1) :
                  TrieGet(prf.trie, keybytesToHex(RlpUint(j)))
                    = [ok |-> TRUE, val |-> GetRlp(txList, j)]
            /\ (prf.pc = "done" /\ prf.result.kind \notin {"err", "panic"}) =>
                  /\ prf.i = Len(txList)
                  /\ prf.result.kind = "ok"
                  /\ prf.result.path = RlpUint(prf.chain.txReceipt.TransactionIndex)
                  /\ prf.result.path \in LeafKeys(prf.trie)
                  /\ TrieGet(prf.trie, keybytesToHex(prf.result.path))
                       = [ok |-> TRUE, val |-> prf.result.value]

C23_Witness ==
    /\ prf.pc = "done" /\ prf.op = "tx" /\ prf.result.kind = "ok"
    /\ Len(prf.chain.block.txs) = LargeBlock
    /\ Len(IterLeaves(prf.trie, << >>, << >>)) = LargeBlock
    /\ prf.result.path = RlpUint(LargeBlock - 2)
    /\ Len(prf.result.path) = 2
    /\ prf.result.path \in LeafKeys(prf.trie)

----------------------------------------------------------------------------
(* The header codec: encodeHeaderToRLP, encodeHeaderWithoutNonceToRLP and  *)
(* decodeHeaderFromRLP (rlp.DecodeBytes into types.Header).                *)

HashLength == 32
AddressLength == 20
BloomByteLength == 256
NonceLength == 8

RECURSIVE Concat(_)
Concat(ss) == IF Len(ss) = 0 THEN << >> ELSE ss[1] \o Concat(Tail(ss))

\* Lines 1087-1103: the fifteen fields in the order of the list literal, each
\* encoded by its type (byte arrays and slices as strings, integers as
\* minimal big-endian strings).
encodeHeaderToRLP(header) ==
    RlpListOf(Concat(<<
        RlpString(header.ParentHash),
        RlpString(header.UncleHash),
        RlpString(header.Coinbase),
        RlpString(header.Root),
        RlpString(header.TxHash),
        RlpString(header.ReceiptHash),
        RlpString(header.Bloom),
        RlpUint(header.Difficulty),
        RlpUint(header.Number),
        RlpUint(header.GasLimit),
        RlpUint(header.GasUsed),
        RlpUint(header.Time),
        RlpString(header.Extra),
        RlpString(header.MixDigest),
        RlpString(header.Nonce) >>))

encodeHeaderWithoutNonce_AsFull(header) == encodeHeaderToRLP(header)

encodeHeaderWithoutNonce_KeepMixDigest(header) ==
    RlpListOf(Concat(<<
        RlpString(header.ParentHash), RlpString(header.UncleHash),
        RlpString(header.Coinbase), RlpString(header.Root),
        RlpString(header.TxHash), RlpString(header.ReceiptHash),
        RlpString(header.Bloom), RlpUint(header.Difficulty),
        RlpUint(header.Number), RlpUint(header.GasLimit),
        RlpUint(header.GasUsed), RlpUint(header.Time),
        RlpString(header.Extra), RlpString(header.MixDigest) >>))

\* Lines 1120-1134: the same list without MixDigest and Nonce.
encodeHeaderWithoutNonceToRLP(header) ==
    RlpListOf(Concat(<<
        RlpString(header.ParentHash),
        RlpString(header.UncleHash),
        RlpString(header.Coinbase),
        RlpString(header.Root),
        RlpString(header.TxHash),
        RlpString(header.ReceiptHash),
        RlpString(header.Bloom),
        RlpUint(header.Difficulty),
        RlpUint(header.Number),
        RlpUint(header.GasLimit),
        RlpUint(header.GasUsed),
        RlpUint(header.Time),
        RlpString(header.Extra) >>))

BadItem == [ok |-> FALSE, isList |-> FALSE, from |-> 0, len |-> 0, next |-> 0]

\* A length of lenlen bytes at b[pos+1..]: canonical (no leading zero, 56 or
\* more) and within the input.  A length of four or more bytes is larger
\* than any input of the model, whatever its value.
LongItem(b, pos, lenlen, isList) ==
    IF pos + lenlen > Len(b) \/ lenlen > 3 THEN BadItem
    ELSE LET size == BytesToNat(SubSeq(b, pos + 1, pos + lenlen))
         IN  IF b[pos + 1] = 0 \/ size < 56 \/ pos + lenlen + size > Len(b) THEN BadItem
             ELSE [ok |-> TRUE, isList |-> isList, from |-> pos + lenlen + 1,
                   len |-> size, next |-> pos + lenlen + size + 1]

\* rlp.Stream.Kind and the size checks: the item that starts at b[pos].
RlpItemAt(b, pos) ==
    IF pos > Len(b) THEN BadItem
    ELSE LET p == b[pos]
         IN  IF p < 128
             THEN [ok |-> TRUE, isList |-> FALSE, from |-> pos, len |-> 1, next |-> pos + 1]
             ELSE IF p < 184 THEN
                 LET size == p - 128
                 IN  IF pos + size > Len(b) THEN BadItem
                     ELSE IF size = 1 /\ b[pos + 1] < 128 THEN BadItem
                     ELSE [ok |-> TRUE, isList |-> FALSE, from |-> pos + 1,
                           len |-> size, next |-> pos + size + 1]
             ELSE IF p < 192 THEN LongItem(b, pos, p - 183, FALSE)
             ELSE IF p < 248 THEN
                 LET size == p - 192
                 IN  IF pos + size > Len(b) THEN BadItem
                     ELSE [ok |-> TRUE, isList |-> TRUE, from |-> pos + 1,
                           len |-> size, next |-> pos + size + 1]
             ELSE LongItem(b, pos, p - 247, TRUE)

\* The items of a list's content b[pos..last], in order.
RECURSIVE RlpItems(_, _, _, _)
RlpItems(b, pos, last, acc) ==
    IF pos > last THEN [ok |-> TRUE, items |-> acc]
    ELSE LET it == RlpItemAt(b, pos)
         IN  IF ~it.ok \/ it.next > last + 1 THEN [ok |-> FALSE, items |-> << >>]
             ELSE RlpItems(b, it.next, last, Append(acc, it))

Content(b, it) == SubSeq(b, it.from, it.from + it.len - 1)

\* Decoding by field type: a byte array takes a string of exactly its length,
\* an integer a string without leading zero, a byte slice any string.
IsArray(it, n) == ~it.isList /\ it.len = n
IsInteger(b, it) == ~it.isList /\ (it.len = 0 \/ b[it.from] # 0)
IsUint64(b, it) == IsInteger(b, it) /\ it.len <= U64Len

NoHeader == [ok |-> FALSE, err |-> "rlp", header |-> << >>]

\* Lines 1109-1115: rlp.DecodeBytes(bytes, header).
decodeHeaderFromRLP(b) ==
    LET top == RlpItemAt(b, 1)
    IN  IF ~top.ok \/ ~top.isList \/ top.next # Len(b) + 1 THEN NoHeader
        ELSE LET r == RlpItems(b, top.from, top.from + top.len - 1, << >>)
                 f == r.items
             IN  IF ~r.ok \/ Len(f) # 15 THEN NoHeader
                 ELSE IF ~(/\ IsArray(f[1], HashLength) /\ IsArray(f[2], HashLength)
                           /\ IsArray(f[3], AddressLength) /\ IsArray(f[4], HashLength)
                           /\ IsArray(f[5], HashLength) /\ IsArray(f[6], HashLength)
                           /\ IsArray(f[7], BloomByteLength)
                           /\ IsInteger(b, f[8]) /\ IsInteger(b, f[9])
                           /\ IsUint64(b, f[10]) /\ IsUint64(b, f[11]) /\ IsUint64(b, f[12])
                           /\ ~f[13].isList
                           /\ IsArray(f[14], HashLength) /\ IsArray(f[15], NonceLength))
                 THEN NoHeader
                 ELSE [ok |-> TRUE, err |-> "",
                       header |->
                         [ParentHash |-> Content(b, f[1]),
                          UncleHash |-> Content(b, f[2]),
                          Coinbase |-> Content(b, f[3]),
                          Root |-> Content(b, f[4]),
                          TxHash |-> Content(b, f[5]),
                          ReceiptHash |-> Content(b, f[6]),
                          Bloom |-> Content(b, f[7]),
                          Difficulty |-> BytesToNat(Content(b, f[8])),
                          Number |-> BytesToNat(Content(b, f[9])),
                          GasLimit |-> BytesToNat(Content(b, f[10])),
                          GasUsed |-> BytesToNat(Content(b, f[11])),
                          Time |-> BytesToNat(Content(b, f[12])),
                          Extra |-> Content(b, f[13]),
                          MixDigest |-> Content(b, f[14]),
                          Nonce |-> Content(b, f[15])]]

\* The codec applied to a header and to a second header that differs from
\* it in chosen fields.
CdcStart(header, other) ==
    [pc |-> "start", header |-> header, other |-> other,
     rlp |-> << >>, withoutNonce |-> << >>, otherWithoutNonce |-> << >>,
     decoded |-> NoHeader]

Encode ==
    /\ cdc.pc = "start"
    /\ cdc' = [cdc EXCEPT !.pc = "encoded",
                          !.rlp = encodeHeaderToRLP(cdc.header)]
    /\ UNCHANGED <<loc, prf, wr>>

EncodeWithoutNonce ==
    /\ cdc.pc = "encoded"
    /\ cdc' = [cdc EXCEPT !.pc = "sealed",
                          !.withoutNonce = encodeHeaderWithoutNonceToRLP(cdc.header),
                          !.otherWithoutNonce = encodeHeaderWithoutNonceToRLP(cdc.other)]
    /\ UNCHANGED <<loc, prf, wr>>

Decode ==
    /\ cdc.pc = "sealed"
    /\ cdc' = [cdc EXCEPT !.pc = "done",
                          !.decoded = decodeHeaderFromRLP(cdc.rlp)]
    /\ UNCHANGED <<loc, prf, wr>>

----------------------------------------------------------------------------
(* Codec inputs: valid headers whose integers and extra data cross the     *)
(* boundaries of the encoding (empty, one byte below and above 0x80, 55    *)
(* and 56 bytes).                                                          *)

LongExtra == 56

Difficulties == {0, 1, 127, 128, 131072}
Numbers == {0, 256, 9000000}
GasLimits == {0, 8000000}
Extras == {<< >>, <<0>>, <<127>>, <<128>>, Rep(7, HashLength), Rep(7, LongExtra - 1),
           Rep(7, LongExtra)}
MixDigests == {Rep(0, HashLength), Rep(5, HashLength)}
Nonces == {Rep(0, NonceLength), Append(Rep(0, NonceLength - 1), 66)}

Headers ==
    {[ParentHash |-> Rep(ph, HashLength), UncleHash |-> Rep(1, HashLength),
      Coinbase |-> Rep(17, AddressLength), Root |-> Rep(2, HashLength),
      TxHash |-> Rep(3, HashLength), ReceiptHash |-> Rep(4, HashLength),
      Bloom |-> Rep(0, BloomByteLength),
      Difficulty |-> d, Number |-> n, GasLimit |-> g, GasUsed |-> 21000,
      Time |-> 1500000000, Extra |-> e, MixDigest |-> m, Nonce |-> k] :
        ph \in {0, 171}, d \in Difficulties, n \in Numbers, g \in GasLimits,
        e \in Extras, m \in MixDigests, k \in Nonces}

InitCodec ==
    /\ \E header \in Headers, m \in MixDigests, k \in Nonces, bump \in {0, 1} :
          cdc = CdcStart(header, [header EXCEPT !.MixDigest = m, !.Nonce = k,
                                                !.Number = header.Number + bump])
    /\ loc = Idle
    /\ prf = Idle
    /\ wr = Idle

NextCodec == Encode \/ EncodeWithoutNonce \/ Decode

SpecCodec == InitCodec /\ [][NextCodec]_vars

----------------------------------------------------------------------------
(* Codec claims.                                                           *)

\* C5: for every valid header h, decoding the full encoding of h succeeds
\* and yields a header equal to h on all fifteen encoded fields.
C5_RoundTrip ==
    cdc.pc = "done" =>
        /\ cdc.decoded.ok
        /\ cdc.decoded.header = cdc.header

\* A round trip through the boundary cases: a one-byte extra data below
\* 0x80, a difficulty of exactly 0x80 and a multi-byte number.
C5_Witness ==
    /\ cdc.pc = "done"
    /\ cdc.header.Extra = <<127>>
    /\ cdc.header.Difficulty = 128
    /\ cdc.header.Number = 9000000
    /\ cdc.header.Nonce # Rep(0, NonceLength)
    /\ cdc.decoded.ok
    /\ cdc.decoded.header = cdc.header

\* The byte strings the header's fields stand for, in the stated order:
\* parentHash, uncleHash, coinbase, stateRoot, txRoot, receiptRoot, bloom,
\* difficulty, number, gasLimit, gasUsed, timestamp, extraData, mixDigest,
\* nonce.
FieldContents(h) ==
    << h.ParentHash, h.UncleHash, h.Coinbase, h.Root, h.TxHash, h.ReceiptHash,
       h.Bloom, MinBytes(h.Difficulty), MinBytes(h.Number), MinBytes(h.GasLimit),
       MinBytes(h.GasUsed), MinBytes(h.Time), h.Extra, h.MixDigest, h.Nonce >>

SealFields == 13

\* The contents of the items of the list that b encodes; a marker when b is
\* not exactly one list of strings.
ListContents(b) ==
    LET top == RlpItemAt(b, 1)
        r == RlpItems(b, top.from, top.from + top.len - 1, << >>)
    IN  IF ~top.ok \/ ~top.isList \/ top.next # Len(b) + 1 THEN <<"not a list">>
        ELSE IF ~r.ok \/ \E i \in 1..Len(r.items) : r.items[i].isList
        THEN <<"not a list of strings">>
        ELSE [i \in 1..Len(r.items) |-> Content(b, r.items[i])]

SameSealFields(h1, h2) ==
    \A i \in 1..SealFields : FieldContents(h1)[i] = FieldContents(h2)[i]

\* C6: the full encoding is the list of exactly the fifteen fields in the
\* stated order; the encoding without nonce is the list of exactly the first
\* thirteen of them in the same order; hence two headers that differ only in
\* nonce and/or mixDigest have the same encoding without nonce.
C6_FieldOrder ==
    cdc.pc \in {"sealed", "done"} =>
        /\ ListContents(cdc.rlp) = FieldContents(cdc.header)
        /\ ListContents(cdc.withoutNonce) = SubSeq(FieldContents(cdc.header), 1, SealFields)
        /\ SameSealFields(cdc.header, cdc.other) => cdc.withoutNonce = cdc.otherWithoutNonce

\* Two headers that differ in both nonce and mixDigest and in nothing else,
\* both encoded without nonce.
C6_Witness ==
    /\ cdc.pc = "sealed"
    /\ cdc.header.Nonce # cdc.other.Nonce
    /\ cdc.header.MixDigest # cdc.other.MixDigest
    /\ SameSealFields(cdc.header, cdc.other)
    /\ cdc.withoutNonce = cdc.otherWithoutNonce
    /\ Len(cdc.withoutNonce) < Len(cdc.rlp)
    /\ Len(cdc.header.Extra) = LongExtra

----------------------------------------------------------------------------
(* The event-replay locator, getRlpHeaderByTestimoniumSubmitEvent.         *)

SelectorLen == 4
WordLen == 32

\* common.Hex2Bytes("d5107381")
SubmitBlockSelector == << 213, 16, 115, 129 >>

LocErr(e, calls) == [kind |-> "err", err |-> e, bytes |-> << >>, calls |-> calls]
LocPanic(calls) == [kind |-> "panic", err |-> "slice bounds out of range",
                    bytes |-> << >>, calls |-> calls]
LocOk(b, calls) == [kind |-> "ok", err |-> "", bytes |-> b, calls |-> calls]

\* The start of the length word: 4 + position.Uint64().
LengthWordStart(position) == U64Add(U64(SelectorLen), position)

ContentStart_NoLengthWord(position) == LengthWordStart(position)

\* The start of the content: 4 + position.Uint64() + 32.
ContentStart(position) == U64Add(LengthWordStart(position), U64(WordLen))

ParseCallData_ShortSelector(txData, calls) ==
    IF Len(txData) < SelectorLen THEN LocPanic(calls)
    ELSE IF Slice(txData, 0, SelectorLen - 1) # Slice(SubmitBlockSelector, 0, SelectorLen - 1)
    THEN LocErr("SignatureMismatch", calls)
    ELSE IF Len(txData) < SelectorLen + WordLen THEN LocPanic(calls)
    ELSE LET position == SetBytesUint64(Slice(txData, SelectorLen, SelectorLen + WordLen))
             lenLo == LengthWordStart(position)
             lenHi == ContentStart(position)
         IN  IF ~SliceInRange(txData, lenLo, lenHi) THEN LocPanic(calls)
             ELSE LET length == SetBytesUint64(SliceU64(txData, lenLo, lenHi))
                      endAt == U64Add(lenHi, length)
                  IN  IF ~SliceInRange(txData, lenHi, endAt) THEN LocPanic(calls)
                      ELSE LocOk(SliceU64(txData, lenHi, endAt), calls)

\* Lines 571-598: the calldata of the matched transaction is parsed.
ParseCallData(txData, calls) ==
    IF Len(txData) < SelectorLen THEN LocPanic(calls)
    ELSE IF Slice(txData, 0, SelectorLen) # SubmitBlockSelector
    THEN LocErr("SignatureMismatch", calls)
    ELSE IF Len(txData) < SelectorLen + WordLen THEN LocPanic(calls)
    ELSE LET position == SetBytesUint64(Slice(txData, SelectorLen, SelectorLen + WordLen))
             lenLo == LengthWordStart(position)
             lenHi == ContentStart(position)
         IN  IF ~SliceInRange(txData, lenLo, lenHi) THEN LocPanic(calls)
             ELSE LET length == SetBytesUint64(SliceU64(txData, lenLo, lenHi))
                      endAt == U64Add(lenHi, length)
                  IN  IF ~SliceInRange(txData, lenHi, endAt) THEN LocPanic(calls)
                      ELSE LocOk(SliceU64(txData, lenHi, endAt), calls)

HandleMatch_PendingIgnored(chain, ev, calls) ==
    LET tx == chain.txs[ev.tx]
        calls2 == Append(calls, << "TransactionByHash", ev.tx >>)
    IN  IF tx.err THEN LocErr("TxLookupError", calls2)
        ELSE ParseCallData(tx.data, Append(calls2, << "Data", ev.tx >>))

\* Lines 556-598: the first matching event decides.
HandleMatch(chain, ev, calls) ==
    LET tx == chain.txs[ev.tx]
        calls2 == Append(calls, << "TransactionByHash", ev.tx >>)
    IN  IF tx.err THEN LocErr("TxLookupError", calls2)
        ELSE IF tx.pending THEN LocErr("Pending", calls2)
        ELSE ParseCallData(tx.data, Append(calls2, << "Data", ev.tx >>))

\* A variant that goes on to the next event when handling a match fails.
RECURSIVE ScanEvents_SkipFailed(_, _, _, _)
ScanEvents_SkipFailed(chain, blockHash, i, calls) ==
    IF i > Len(chain.log) THEN LocErr("NoSubmitEvent", calls)
    ELSE LET ev == chain.log[i]
             calls2 == Append(calls, << "Next", i >>)
             r == HandleMatch(chain, ev, calls2)
         IN  IF ev.data = blockHash /\ r.kind # "err" THEN r
             ELSE IF ev.data = blockHash
             THEN ScanEvents_SkipFailed(chain, blockHash, i + 1, r.calls)
             ELSE ScanEvents_SkipFailed(chain, blockHash, i + 1, calls2)

\* Lines 551-602: the events are taken in the order of the iterator.
RECURSIVE ScanEvents(_, _, _, _)
ScanEvents(chain, blockHash, i, calls) ==
    IF i > Len(chain.log) THEN LocErr("NoSubmitEvent", calls)
    ELSE LET ev == chain.log[i]
             calls2 == Append(calls, << "Next", i >>)
         IN  IF ev.data = blockHash THEN HandleMatch(chain, ev, calls2)
             ELSE ScanEvents(chain, blockHash, i + 1, calls2)

getRlpHeaderByTestimoniumSubmitEvent(chain, blockHash) ==
    IF chain.filterErr THEN LocErr("FilterError", << << "FilterSubmitHeader" >> >>)
    ELSE ScanEvents(chain, blockHash, 1, << << "FilterSubmitHeader" >> >>)

----------------------------------------------------------------------------
(* The inputs of the locator: an event log, the transactions the events    *)
(* came from, their calldata.                                              *)

MaxEvents == 3
MaxPayload == 2

Hashes == { "hA", "hB" }
TxIds == { "t1", "t2" }

Word(n) == Rep(0, WordLen - SmallLen) \o NatToBytes(n, SmallLen)

\* The payload of n bytes starting with byte b.
Payload(b, n) == [i \in 1..n |-> (b + i - 1) % 256]

\* ABI layout: selector, offset word, (pad bytes up to the offset), length
\* word, content, zero padding to a whole word.
AbiCallData(sel, off, content, tail) ==
    sel \o Word(off) \o Rep(7, off - WordLen) \o Word(Len(content)) \o content
        \o Rep(0, tail)

GoodCallDatas ==
    { AbiCallData(SubmitBlockSelector, off, Payload(b, n), tail) :
        off \in { WordLen, WordLen + 1, 2 * WordLen }, b \in { 200 },
        n \in 0..MaxPayload, tail \in { 0, 5 } }

\* A word whose low 64 bits are 2^64 - 4: 4 + position wraps to 0.
WrapWord == Rep(0, WordLen - U64Len) \o Rep(255, U64Len - 1) \o << 252 >>
HugeWord == << 1 >> \o Rep(0, WordLen - 1)

BadCallDatas ==
    LET good == AbiCallData(SubmitBlockSelector, WordLen, Payload(1, MaxPayload), 0)
    IN  { SubSeq(good, 1, k) : k \in { 0, 3, 4, 35, 36, 67, 68, Len(good) - 1 } }
        \cup { AbiCallData(<< 213, 16, 115, 128 >>, WordLen, Payload(1, 1), 0),
               SubmitBlockSelector \o WrapWord \o Word(1) \o << 9 >>,
               SubmitBlockSelector \o HugeWord \o Word(1) \o << 9 >>,
               SubmitBlockSelector \o Word(WordLen) \o HugeWord \o << 9 >>,
               SubmitBlockSelector \o Word(WordLen) \o Word(2) \o << 9 >>,
               SubmitBlockSelector \o Word(WordLen + 1) \o Word(1) \o << 9 >> }

\* Calls of other methods: the selector differs in one byte or in all, with
\* the parameters of a submission after it, or with nothing after it.
OtherSelectors ==
    { << 212, 16, 115, 129 >>, << 213, 17, 115, 129 >>, << 213, 16, 0, 129 >>,
      << 213, 16, 115, 128 >>, << 0, 0, 0, 0 >> }
OtherMethodCallDatas ==
    { AbiCallData(sel, WordLen, Payload(1, MaxPayload), 0) : sel \in OtherSelectors }
    \cup OtherSelectors

CallDatas == GoodCallDatas \cup BadCallDatas \cup OtherMethodCallDatas

TxInfos ==
    { [err |-> TRUE, pending |-> FALSE, data |-> << >>] }
    \cup { [err |-> FALSE, pending |-> TRUE, data |-> d] :
             d \in { AbiCallData(SubmitBlockSelector, WordLen, Payload(1, 1), 0) } }
    \cup { [err |-> FALSE, pending |-> FALSE, data |-> d] : d \in CallDatas }

\* The second transaction: a submission of another header, or a failing lookup.
OtherTxInfos ==
    { [err |-> TRUE, pending |-> FALSE, data |-> << >>],
      [err |-> FALSE, pending |-> TRUE, data |-> << >>],
      [err |-> FALSE, pending |-> FALSE,
       data |-> AbiCallData(SubmitBlockSelector, WordLen, Payload(100, 1), 0)],
      [err |-> FALSE, pending |-> FALSE, data |-> << 1, 2, 3, 4, 5 >>] }

Events == [data : Hashes, tx : TxIds]

EventLogs == UNION { [1..n -> Events] : n \in 0..MaxEvents }

InitLocator ==
    /\ prf = Idle /\ cdc = Idle /\ wr = Idle
    /\ \E log \in EventLogs, i1 \in TxInfos, i2 \in OtherTxInfos, fe \in BOOLEAN :
         loc = [pc |-> "start",
               chain |-> [log |-> log, filterErr |-> fe,
                          txs |-> [t \in TxIds |-> IF t = "t1" THEN i1 ELSE i2]],
               blockHash |-> "hA",
               result |-> LocErr("", << >>)]

Locate ==
    /\ loc.pc = "start"
    /\ loc' = [loc EXCEPT !.pc = "done",
                          !.result = getRlpHeaderByTestimoniumSubmitEvent(loc.chain, loc.blockHash)]
    /\ UNCHANGED << prf, cdc, wr >>

NextLocator == Locate

SpecLocator == InitLocator /\ [][NextLocator]_vars

----------------------------------------------------------------------------
(* Claims about the locator.                                               *)

MatchingEvents(log, h) == { i \in 1..Len(log) : log[i].data = h }

\* The value of the 32-byte word at offset `at`, when SmallLen bytes hold it.
WordAt(cd, at) == BytesToNat(Slice(cd, at + WordLen - SmallLen, at + WordLen))
WordIsSmall(cd, at) ==
    /\ at + WordLen <= Len(cd)
    /\ IsZero(Slice(cd, at, at + WordLen - SmallLen))

\* The calldata is a call of the submit function holding a dynamic byte array:
\* with p the word at offset 4 and n the word at 4 + p, the bytes
\* [4 + p + 32, 4 + p + 32 + n) lie in the calldata.
HasDynParam(cd) ==
    /\ Len(cd) >= SelectorLen
    /\ SubSeq(cd, 1, SelectorLen) = SubmitBlockSelector
    /\ WordIsSmall(cd, SelectorLen)
    /\ WordIsSmall(cd, SelectorLen + WordAt(cd, SelectorLen))
    /\ LET p == WordAt(cd, SelectorLen)
           n == WordAt(cd, SelectorLen + p)
       IN  SelectorLen + p + WordLen + n <= Len(cd)

DynParam(cd) ==
    LET p == WordAt(cd, SelectorLen)
        n == WordAt(cd, SelectorLen + p)
    IN  [i \in 1..n |-> cd[SelectorLen + p + WordLen + i]]

\* C1: with exactly one submit-header event whose payload is the target hash,
\* emitted by a mined transaction that calls the submit function, the locator
\* returns exactly the dynamic byte array of that transaction's calldata (the
\* bytes [4+p+32, 4+p+32+n), p the word at offset 4, n the word at 4+p); with
\* no matching event it fails with the no-submit-event error and no bytes.
C1_LocatorCorrect ==
    (loc.pc = "done" /\ ~loc.chain.filterErr) =>
        LET m == MatchingEvents(loc.chain.log, loc.blockHash)
        IN  /\ m = {} =>
                  /\ loc.result.kind = "err"
                  /\ loc.result.err = "NoSubmitEvent"
                  /\ loc.result.bytes = << >>
            /\ \A i \in m :
                  LET tx == loc.chain.txs[loc.chain.log[i].tx]
                  IN  (m = {i} /\ ~tx.err /\ ~tx.pending /\ HasDynParam(tx.data)) =>
                          /\ loc.result.kind = "ok"
                          /\ loc.result.bytes = DynParam(tx.data)

C1_Witness ==
    /\ loc.pc = "done"
    /\ loc.result.kind = "ok"
    /\ Len(loc.result.bytes) = MaxPayload
    /\ MatchingEvents(loc.chain.log, loc.blockHash) = {2}
    /\ HasDynParam(loc.chain.txs[loc.chain.log[2].tx].data)
    /\ WordAt(loc.chain.txs[loc.chain.log[2].tx].data, SelectorLen) = 2 * WordLen

\* The first event whose payload is the target hash.
FirstMatch(log, h) ==
    CHOOSE i \in MatchingEvents(log, h) : \A j \in MatchingEvents(log, h) : i <= j

CallsOf(calls, name) == { k \in 1..Len(calls) : calls[k][1] = name }

\* C11: if the transaction that emitted the matching submit-header event is
\* reported as pending, the locator fails with the pending-transaction error
\* and no bytes, without reading the transaction's calldata and without
\* examining any event after the matching one.
C11_PendingFails ==
    (loc.pc = "done" /\ ~loc.chain.filterErr
        /\ MatchingEvents(loc.chain.log, loc.blockHash) # {}) =>
        LET i == FirstMatch(loc.chain.log, loc.blockHash)
            tx == loc.chain.txs[loc.chain.log[i].tx]
            calls == loc.result.calls
        IN  (~tx.err /\ tx.pending) =>
                /\ loc.result.kind = "err"
                /\ loc.result.err = "Pending"
                /\ loc.result.bytes = << >>
                /\ CallsOf(calls, "Data") = {}
                /\ Cardinality(CallsOf(calls, "TransactionByHash")) = 1
                /\ calls[Len(calls)] = << "TransactionByHash", loc.chain.log[i].tx >>
                /\ \A k \in CallsOf(calls, "Next") : calls[k][2] <= i

\* A pending submission with parseable calldata, found at the second event,
\* with another matching event after it.
C11_Witness ==
    /\ loc.pc = "done"
    /\ loc.result.err = "Pending"
    /\ Len(loc.chain.log) = MaxEvents
    /\ MatchingEvents(loc.chain.log, loc.blockHash) = {2, MaxEvents}
    /\ loc.chain.txs[loc.chain.log[2].tx].pending
    /\ HasDynParam(loc.chain.txs[loc.chain.log[2].tx].data)
    /\ ~loc.chain.txs[loc.chain.log[MaxEvents].tx].pending

\* C12: if the first 4 bytes of the matched transaction's calldata are not
\* the selector d5107381, the locator fails with the signature-mismatch error
\* and returns no header bytes, whatever the calldata holds otherwise.
C12_SelectorMismatchFails ==
    (loc.pc = "done" /\ ~loc.chain.filterErr
        /\ MatchingEvents(loc.chain.log, loc.blockHash) # {}) =>
        LET i == FirstMatch(loc.chain.log, loc.blockHash)
            tx == loc.chain.txs[loc.chain.log[i].tx]
        IN  (/\ ~tx.err
             /\ ~tx.pending
             /\ Len(tx.data) >= 4
             /\ SubSeq(tx.data, 1, 4) # << 13 * 16 + 5, 1 * 16 + 0, 7 * 16 + 3, 8 * 16 + 1 >>) =>
                /\ loc.result.kind = "err"
                /\ loc.result.err = "SignatureMismatch"
                /\ loc.result.bytes = << >>

\* A call of another method whose selector differs in the last byte only and
\* whose parameters have the layout of a submission.
C12_Witness ==
    /\ loc.pc = "done"
    /\ loc.result.err = "SignatureMismatch"
    /\ MatchingEvents(loc.chain.log, loc.blockHash) # {}
    /\ LET tx == loc.chain.txs[loc.chain.log[FirstMatch(loc.chain.log, loc.blockHash)].tx]
       IN  /\ SubSeq(tx.data, 1, 3) = SubSeq(SubmitBlockSelector, 1, 3)
           /\ HasDynParam(SubmitBlockSelector \o SubSeq(tx.data, SelectorLen + 1, Len(tx.data)))

\* The calls of a name in a trace, in their order.
CallSeq(calls, name) == SelectSeq(calls, LAMBDA c : c[1] = name)

\* C21: the locator takes the submit-header events in ascending log order and
\* decides on the first event whose payload equals the target hash: the
\* events before it are skipped, no event after it is examined, its
\* transaction is the only one looked up, and when handling it fails (lookup
\* error, pending, selector mismatch) that failure is returned although a
\* later event matches too.
C21_FirstMatchDecides ==
    (loc.pc = "done" /\ ~loc.chain.filterErr) =>
        LET log == loc.chain.log
            m == MatchingEvents(log, loc.blockHash)
            calls == loc.result.calls
            nexts == CallSeq(calls, "Next")
            lookups == CallSeq(calls, "TransactionByHash")
        IN  /\ \A k \in 1..Len(nexts) : nexts[k] = << "Next", k >>
            /\ m = {} => Len(nexts) = Len(log) /\ lookups = << >>
            /\ m # {} =>
                  LET i == FirstMatch(log, loc.blockHash)
                      tx == loc.chain.txs[log[i].tx]
                  IN  /\ Len(nexts) = i
                      /\ lookups = << << "TransactionByHash", log[i].tx >> >>
                      /\ \A k \in CallsOf(calls, "Next"), t \in CallsOf(calls, "TransactionByHash") :
                            k < t
                      /\ tx.err => loc.result = LocErr("TxLookupError", calls)
                      /\ (~tx.err /\ tx.pending) => loc.result = LocErr("Pending", calls)
                      /\ (~tx.err /\ ~tx.pending /\ Len(tx.data) >= SelectorLen
                            /\ SubSeq(tx.data, 1, SelectorLen) # SubmitBlockSelector) =>
                            loc.result = LocErr("SignatureMismatch", calls)

\* The first match fails in its handling while a later event of a mined
\* submission matches too, after an event of another payload was skipped.
C21_Witness ==
    /\ loc.pc = "done"
    /\ loc.result.kind = "err"
    /\ loc.result.err \in {"TxLookupError", "Pending", "SignatureMismatch"}
    /\ Len(loc.chain.log) = MaxEvents
    /\ MatchingEvents(loc.chain.log, loc.blockHash) = {2, MaxEvents}
    /\ loc.chain.log[2].tx # loc.chain.log[MaxEvents].tx
    /\ LET later == loc.chain.txs[loc.chain.log[MaxEvents].tx]
       IN  ~later.err /\ ~later.pending /\ HasDynParam(later.data)
    /\ Len(CallSeq(loc.result.calls, "Next")) = 2

\* The bytes are a contiguous part of the calldata.
LiesInside(bytes, cd) ==
    \E at \in 0..Len(cd) :
        /\ at + Len(bytes) <= Len(cd)
        /\ SubSeq(cd, at + 1, at + Len(bytes)) = bytes

\* C22: for every calldata of a matched, mined transaction, calldata shorter
\* than 4 or 36 bytes and calldata whose offset word or length word points
\* past its end included, the locator returns bytes lying inside the
\* calldata or returns an error; it makes no out-of-range slice access.
C22_NoOutOfRange ==
    (loc.pc = "done" /\ ~loc.chain.filterErr
        /\ MatchingEvents(loc.chain.log, loc.blockHash) # {}) =>
        LET i == FirstMatch(loc.chain.log, loc.blockHash)
            tx == loc.chain.txs[loc.chain.log[i].tx]
        IN  (~tx.err /\ ~tx.pending) =>
                /\ loc.result.kind \in {"ok", "err"}
                /\ loc.result.kind = "ok" => LiesInside(loc.result.bytes, tx.data)

----------------------------------------------------------------------------
(* awaitTxReceipt: a polling goroutine requests the receipt in an endless  *)
(* loop and sends every non-nil receipt on an unbuffered channel; the      *)
(* caller selects between that channel and a timer.                        *)

TimeoutLength == 2
MaxPolls == 3
FirstBlock == 5

Nil == [status |-> "nil", block |-> 0]

NotAwaited == [done |-> FALSE, receipt |-> Nil, err |-> ""]
Awaited(receipt, err) == [done |-> TRUE, receipt |-> receipt, err |-> err]

\* The transaction the running operation sent last, and its poller.
Cur == Len(wr.txs)

ShouldSend_Always(receipt) == TRUE

\* Line 1169: if receipt != nil.
ShouldSend(receipt) == receipt # Nil

\* Lines 1163-1173: the channel is made and the goroutine started.
Spawn ==
    /\ wr.pc = "spawn"
    /\ wr' = [wr EXCEPT !.pc = "enter",
                        !.await = NotAwaited,
                        !.pollers = Append(@, [tx |-> Cur, pc |-> "request", got |-> Nil,
                                               requests |-> 0, failed |-> 0])]
    /\ UNCHANGED <<loc, prf, cdc>>

\* Lines 1175-1178: the timer is created and the caller parks in the select.
EnterSelect ==
    /\ wr.pc = "enter"
    /\ wr' = [wr EXCEPT !.pc = "select", !.clock = 0]
    /\ UNCHANGED <<loc, prf, cdc>>

\* A minute passes while the caller is parked.
Tick ==
    /\ wr.pc = "select"
    /\ wr.clock < TimeoutLength - 1
    /\ wr' = [wr EXCEPT !.clock = @ + 1]
    /\ UNCHANGED <<loc, prf, cdc>>

\* A variant in which the return on the timer stops the polling goroutine.
Timeout_Cancel ==
    /\ wr.pc = "select"
    /\ wr.clock = TimeoutLength - 1
    /\ wr' = [wr EXCEPT !.pc = "awaited", !.clock = TimeoutLength,
                        !.await = Awaited(Nil, "timeout"),
                        !.pollers[Len(wr.pollers)].pc = "stopped"]
    /\ UNCHANGED <<loc, prf, cdc>>

\* Lines 1178-1179: the timer fires after TimeoutLength minutes and decides
\* the select.
Timeout ==
    /\ wr.pc = "select"
    /\ wr.clock = TimeoutLength - 1
    /\ wr' = [wr EXCEPT !.pc = "awaited", !.clock = TimeoutLength,
                        !.await = Awaited(Nil, "timeout")]
    /\ UNCHANGED <<loc, prf, cdc>>

\* The node: transaction k is mined into a block, with either status.
Mine(k) ==
    /\ k \in 1..Len(wr.txs)
    /\ wr.node.receipts[k] = Nil
    /\ \E status \in {0, 1} :
          wr' = [wr EXCEPT !.node.receipts[k] = [status |-> status, block |-> FirstBlock + k - 1]]
    /\ UNCHANGED <<loc, prf, cdc>>

\* Lines 1166-1171: one pass of the polling loop up to the send.  The
\* request fails, finds nothing, or returns the receipt once there is one;
\* the error is dropped.  The goroutine runs as long as the process does.
Poll(i) ==
    /\ i \in 1..Len(wr.pollers)
    /\ wr.out.kind \notin {"fatal", "panic"}
    /\ wr.pollers[i].pc = "request"
    /\ wr.pollers[i].requests < MaxPolls
    /\ \E answer \in {"error", "notFound", "receipt"} :
          /\ answer = "receipt" => wr.node.receipts[wr.pollers[i].tx] # Nil
          /\ LET receipt == IF answer = "receipt" THEN wr.node.receipts[wr.pollers[i].tx]
                            ELSE Nil
             IN  wr' = [wr EXCEPT
                    !.pollers[i].requests = @ + 1,
                    !.pollers[i].failed = IF answer = "error" THEN @ + 1 ELSE @,
                    !.pollers[i].got = receipt,
                    !.pollers[i].pc = IF ShouldSend(receipt) THEN "send" ELSE "request"]
    /\ UNCHANGED <<loc, prf, cdc>>

\* Lines 1170 and 1176-1177: the send meets the parked caller, which returns
\* the receipt; the goroutine goes on with its loop.  Only the goroutine of
\* the running call holds the channel the caller reads.
Deliver ==
    /\ wr.pc = "select"
    /\ Len(wr.pollers) > 0
    /\ wr.pollers[Len(wr.pollers)].pc = "send"
    /\ wr' = [wr EXCEPT !.pc = "awaited",
                        !.await = Awaited(wr.pollers[Len(wr.pollers)].got, ""),
                        !.pollers[Len(wr.pollers)].pc = "request"]
    /\ UNCHANGED <<loc, prf, cdc>>

NoOut == [kind |-> "running", msg |-> "", reason |-> << >>]

FirstNonce == 7

NoAuth == [From |-> "", Nonce |-> 0, Value |-> 0, GasPrice |-> 0]
NoChain == [log |-> << >>, filterErr |-> FALSE, txs |-> << >>]
NoInputs == [header |-> << >>, parentHash |-> << >>, parent |-> << >>, meta |-> << >>,
             dataSetLookUp |-> << >>, witnessForLookup |-> << >>,
             totalDifficulty |-> 0]
NoLoop == [k |-> 0, start |-> 0, nodes |-> << >>, mnlen |-> 0]

\* An operation of the client before its first step, and the target chain's
\* node, which has mined no transaction of the operation yet.
WrStart(op, args, chain) ==
    [pc |-> "start", op |-> op, args |-> args,
     node |-> [nonce |-> FirstNonce, receipts |-> << >>, chain |-> chain,
               sim |-> << >>, log |-> << >>],
     auth |-> NoAuth, txs |-> << >>, pollers |-> << >>, clock |-> 0,
     await |-> NotAwaited, calls |-> << >>,
     inputs |-> NoInputs, loop |-> NoLoop,
     fi |-> 0, filters |-> << >>, reported |-> << >>,
     out |-> NoOut]

\* A call of awaitTxReceipt for a transaction that was sent.
InitAwait ==
    /\ loc = Idle
    /\ prf = Idle
    /\ cdc = Idle
    /\ wr = [WrStart("awaitTxReceipt", << >>, NoChain) EXCEPT
                !.pc = "spawn", !.txs = << [hash |-> 1] >>, !.node.receipts = << Nil >>]

NextAwait ==
    \/ Spawn
    \/ EnterSelect
    \/ Tick
    \/ Timeout
    \/ \E k \in 1..Len(wr.txs) : Mine(k)
    \/ \E i \in 1..Len(wr.pollers) : Poll(i)
    \/ Deliver

SpecAwait == InitAwait /\ [][NextAwait]_vars

\* Time passes and the timer fires.
SpecAwaitLive == SpecAwait /\ WF_vars(Tick) /\ WF_vars(Timeout)

----------------------------------------------------------------------------
(* Claims about awaitTxReceipt.                                            *)

AwaitResultOk ==
    wr.await.done =>
        /\ wr.await.err \in {"", "timeout"}
        /\ wr.await.err = "timeout" => wr.await.receipt = Nil
        /\ wr.await.err = "" => wr.await.receipt # Nil
        /\ wr.node.receipts[Cur] = Nil => wr.await.err = "timeout"

\* C7: if no receipt for the transaction becomes available before the
\* timer's bound, awaitTxReceipt returns, and it returns the timeout error and
\* no receipt; it never returns another kind of error, however many polling
\* requests failed or found nothing.
C7_TimeoutOnly ==
    /\ [](wr.op = "awaitTxReceipt" => AwaitResultOk)
    /\ (wr.op = "awaitTxReceipt" /\ wr.pc = "select")
          ~> (wr.await.done \/ wr.node.receipts[1] # Nil)

\* The timeout after MaxPolls requests that failed or found nothing.
C7_Witness ==
    /\ wr.op = "awaitTxReceipt"
    /\ wr.await.done
    /\ wr.await.err = "timeout"
    /\ wr.await.receipt = Nil
    /\ wr.clock = TimeoutLength
    /\ wr.node.receipts[1] = Nil
    /\ wr.pollers[1].requests = MaxPolls
    /\ wr.pollers[1].failed \in 1..(MaxPolls - 1)

----------------------------------------------------------------------------
(* The write operations: DepositStake, WithdrawStake, SubmitRLPHeader,     *)
(* DisputeBlock, VerifyMerkleProof, SetEpochData, DeployTestimonium and    *)
(* DeployEthash, one action per remote call.                               *)

Account == "account"

\* How an operation ends: normally, with a printed failure, with a returned
\* error, with log.Fatal, or with a panic.
Ok == [kind |-> "ok", msg |-> "", reason |-> << >>]
Error(msg) == [kind |-> "error", msg |-> msg, reason |-> << >>]
Fatal(msg) == [kind |-> "fatal", msg |-> msg, reason |-> << >>]
Panic(msg) == [kind |-> "panic", msg |-> msg, reason |-> << >>]

\* DepositStake and WithdrawStake return the errors of their remote calls;
\* the other operations pass them to log.Fatal.
ReturnsError(op) == op \in {"DepositStake", "WithdrawStake"}
Fail(op, msg) == IF ReturnsError(op) THEN Error(msg) ELSE Fatal(msg)

End(w, out) == [w EXCEPT !.pc = "done", !.out = out]

Call(name, arg) == [call |-> name, arg |-> arg]

\* The operations that read from a chain with one remote call: those that
\* look the chain up first, and those that use the chain's entry as it is.
CheckedReads == {"Balance", "GetStake", "BlockHeaderExists"}
UncheckedReads == {"LongestChainEndpoint", "GetBlockHeader", "GetOriginalBlockHeader",
                   "GetRequiredVerificationFee"}
ReadOps == CheckedReads \cup UncheckedReads

\* The remote call of a read operation.
RemoteCallOf(op) ==
    CASE op = "Balance" -> "BalanceAt"
      [] op = "GetStake" -> "GetStake"
      [] op = "BlockHeaderExists" -> "IsHeaderStored"
      [] op = "LongestChainEndpoint" -> "LongestChainEndpoint"
      [] op = "GetBlockHeader" -> "GetHeader"
      [] op = "GetOriginalBlockHeader" -> "BlockByHash"
      [] OTHER -> "GetRequiredVerificationFee"

\* Lines 278-309 and 368-392, 693-695: a read operation.  Balance, GetStake
\* and BlockHeaderExists return an error for a chain that is not configured;
\* LongestChainEndpoint builds that error and drops it, and the others have
\* no lookup: they go on to the field of the nil chain entry.
ReadCall ==
    /\ wr.pc = "start"
    /\ wr.op \in ReadOps
    /\ IF ~wr.args.exists
       THEN wr' = End(wr, IF wr.op \in CheckedReads THEN Error("chain does not exist")
                          ELSE Panic("nil pointer dereference"))
       ELSE \E err \in BOOLEAN :
              LET w == [wr EXCEPT !.calls = Append(@, Call(RemoteCallOf(wr.op), << >>))]
              IN  wr' = End(w, IF err THEN Error(RemoteCallOf(wr.op)) ELSE Ok)
    /\ UNCHANGED <<loc, prf, cdc>>

\* Lines 312, 330, 409, 828, 941, 987-992, 1033: the chain lookup.
\* DisputeBlock has none.
CheckChain ==
    /\ wr.pc = "start"
    /\ wr.op \notin {"DisputeBlock", "awaitTxReceipt"} \cup ReadOps
    /\ wr' = IF ~wr.args.exists THEN End(wr, Fail(wr.op, "chain does not exist"))
             ELSE IF wr.op = "DeployTestimonium"
             THEN IF wr.args.sourceExists THEN [wr EXCEPT !.pc = "genesis"]
                  ELSE End(wr, Fatal("chain does not exist"))
             ELSE IF wr.op = "SetEpochData" THEN [wr EXCEPT !.pc = "chunk"]
             ELSE [wr EXCEPT !.pc = "nonce"]
    /\ UNCHANGED <<loc, prf, cdc>>

\* The calls of the locator, as calls of the operation.
Trace(calls) == [i \in 1..Len(calls) |-> Call(calls[i][1], calls[i])]

Keccak256(b) == [keccak |-> b]

\* ethash.NewBlockMetaData(number, nonce, hash) and the arrays computed from
\* it.
NewBlockMetaData(number, nonce, hash) == <<number, nonce, hash>>
DAGElementArray(meta) == [dag |-> "elements", of |-> meta]
DAGProofArray(meta) == [dag |-> "proof", of |-> meta]

\* Lines 608-611: the submitted bytes of the disputed header are recovered.
\* The entry of a chain that is not configured is nil.
LocateHeader ==
    /\ wr.pc = "start"
    /\ wr.op = "DisputeBlock"
    /\ wr' = IF ~wr.args.exists THEN End(wr, Panic("nil pointer dereference"))
             ELSE LET r == getRlpHeaderByTestimoniumSubmitEvent(wr.node.chain, wr.args.blockHash)
                      w == [wr EXCEPT !.calls = @ \o Trace(r.calls)]
                  IN  IF r.kind = "err" THEN End(w, Fatal(r.err))
                      ELSE IF r.kind = "panic" THEN End(w, Panic(r.err))
                      ELSE [w EXCEPT !.pc = "decode", !.inputs.header = r.bytes]
    /\ UNCHANGED <<loc, prf, cdc>>

\* Lines 613-635: the header is decoded, encoded again without nonce and
\* hashed, and the dataset lookup and its witness are computed.
DecodeHeader ==
    /\ wr.pc = "decode"
    /\ LET d == decodeHeaderFromRLP(wr.inputs.header)
       IN  wr' = IF ~d.ok THEN End(wr, Fatal(d.err))
                 ELSE LET blockHeaderWithoutNonce == encodeHeaderWithoutNonceToRLP(d.header)
                          meta == NewBlockMetaData(d.header.Number, d.header.Nonce,
                                                   Keccak256(blockHeaderWithoutNonce))
                      IN  [wr EXCEPT !.pc = "locateParent",
                                     !.inputs.meta = meta,
                                     !.inputs.parentHash = d.header.ParentHash,
                                     !.inputs.dataSetLookUp = DAGElementArray(meta),
                                     !.inputs.witnessForLookup = DAGProofArray(meta)]
    /\ UNCHANGED <<loc, prf, cdc>>

LocateParent_IgnoreError ==
    /\ wr.pc = "locateParent"
    /\ LET r == getRlpHeaderByTestimoniumSubmitEvent(wr.node.chain, wr.inputs.parentHash)
       IN  wr' = [wr EXCEPT !.pc = "nonce", !.inputs.parent = r.bytes,
                            !.calls = @ \o Trace(r.calls)]
    /\ UNCHANGED <<loc, prf, cdc>>

\* Lines 637-641: the submitted bytes of the parent header are recovered.
LocateParent ==
    /\ wr.pc = "locateParent"
    /\ LET r == getRlpHeaderByTestimoniumSubmitEvent(wr.node.chain, wr.inputs.parentHash)
           w == [wr EXCEPT !.calls = @ \o Trace(r.calls)]
       IN  wr' = IF r.kind = "err" THEN End(w, Fatal(r.err))
                 ELSE IF r.kind = "panic" THEN End(w, Panic(r.err))
                 ELSE [w EXCEPT !.pc = "nonce", !.inputs.parent = r.bytes]
    /\ UNCHANGED <<loc, prf, cdc>>

\* The header of the source chain's block that DeployTestimonium starts from.
GenesisHeader ==
    [ParentHash |-> Rep(0, HashLength), UncleHash |-> Rep(1, HashLength),
     Coinbase |-> Rep(17, AddressLength), Root |-> Rep(2, HashLength),
     TxHash |-> Rep(3, HashLength), ReceiptHash |-> Rep(4, HashLength),
     Bloom |-> Rep(0, BloomByteLength),
     Difficulty |-> 131072, Number |-> 256, GasLimit |-> 8000000, GasUsed |-> 21000,
     Time |-> 1500000000, Extra |-> << >>, MixDigest |-> Rep(5, HashLength),
     Nonce |-> Append(Rep(0, NonceLength - 1), 66)]

\* Lines 994-997 and 1004-1007: the header is fetched from the source chain
\* and encoded.
HeaderByNumber ==
    /\ wr.pc = "genesis"
    /\ \E err \in BOOLEAN :
          LET w == [wr EXCEPT !.calls = Append(@, Call("HeaderByNumber", wr.args.genesisBlockNumber))]
          IN  wr' = IF err THEN End(w, Fatal("Failed to retrieve header from source chain"))
                    ELSE [w EXCEPT !.pc = "difficulty",
                                   !.inputs.header = encodeHeaderToRLP(GenesisHeader)]
    /\ UNCHANGED <<loc, prf, cdc>>

\* Lines 485-507 and 999-1002: the total difficulty is read over a connection
\* of its own.  A failing request leaves the result nil, and the result is
\* read all the same.
TotalDifficulty ==
    /\ wr.pc = "difficulty"
    /\ \E answer \in {"ok", "dialError", "notFound", "requestError", "badHex"} :
          LET w == [wr EXCEPT !.calls = Append(@, Call("eth_getBlockByNumber", wr.args.genesisBlockNumber))]
          IN  wr' = CASE answer = "ok" ->
                           [w EXCEPT !.pc = "nonce",
                                     !.inputs.totalDifficulty = GenesisHeader.Difficulty]
                      [] answer = "dialError" -> End(wr, Fatal("Failed to connect to chain"))
                      [] answer = "requestError" -> End(w, Panic("nil pointer dereference"))
                      [] OTHER -> End(w, Fatal("Failed to retrieve total difficulty"))
    /\ UNCHANGED <<loc, prf, cdc>>

ChunkSize == 40
SkipBelow == 440
SkipEpoch == 128

Min(a, b) == IF a < b THEN a ELSE b

\* The k-th Merkle node of the epoch data, counted from 0.
MerkleNode(k) == k

\* A variant that leaves the start where it is when it skips a chunk.
NextChunk_SkipKeepsStart ==
    /\ wr.pc = "chunk"
    /\ LET first == wr.loop.k
           mnlen == Min(ChunkSize, wr.args.nodes - first)
           k == first + mnlen - 1
       IN  wr' = IF first = wr.args.nodes THEN End(wr, Ok)
                 ELSE IF k < SkipBelow /\ wr.args.epoch = SkipEpoch
                 THEN [wr EXCEPT !.loop = [k |-> k + 1, start |-> @.start,
                                           nodes |-> << >>, mnlen |-> 0]]
                 ELSE [wr EXCEPT !.pc = "nonce",
                                 !.loop = [k |-> k + 1, start |-> @.start,
                                           nodes |-> [i \in 1..mnlen |-> MerkleNode(first + i - 1)],
                                           mnlen |-> mnlen]]
    /\ UNCHANGED <<loc, prf, cdc>>

\* A variant that sends every chunk with start 0.
NextChunk_StartZero ==
    /\ wr.pc = "chunk"
    /\ LET first == wr.loop.k
           mnlen == Min(ChunkSize, wr.args.nodes - first)
           k == first + mnlen - 1
       IN  wr' = IF first = wr.args.nodes THEN End(wr, Ok)
                 ELSE IF k < SkipBelow /\ wr.args.epoch = SkipEpoch
                 THEN [wr EXCEPT !.loop = [k |-> k + 1, start |-> @.start + mnlen,
                                           nodes |-> << >>, mnlen |-> 0]]
                 ELSE [wr EXCEPT !.pc = "nonce",
                                 !.loop = [k |-> k + 1, start |-> 0,
                                           nodes |-> [i \in 1..mnlen |-> MerkleNode(first + i - 1)],
                                           mnlen |-> mnlen]]
    /\ UNCHANGED <<loc, prf, cdc>>

\* Lines 948-958 and 983: the passes of the loop up to the end of a chunk (40
\* nodes collected, or the last node reached), or the end of the loop.
NextChunk ==
    /\ wr.pc = "chunk"
    /\ LET first == wr.loop.k
           mnlen == Min(ChunkSize, wr.args.nodes - first)
           k == first + mnlen - 1
       IN  wr' = IF first = wr.args.nodes THEN End(wr, Ok)
                 ELSE IF k < SkipBelow /\ wr.args.epoch = SkipEpoch
                 THEN [wr EXCEPT !.loop = [k |-> k + 1, start |-> @.start + mnlen,
                                           nodes |-> << >>, mnlen |-> 0]]
                 ELSE [wr EXCEPT !.pc = "nonce",
                                 !.loop = [k |-> k + 1, start |-> @.start,
                                           nodes |-> [i \in 1..mnlen |-> MerkleNode(first + i - 1)],
                                           mnlen |-> mnlen]]
    /\ UNCHANGED <<loc, prf, cdc>>

\* A variant that sends the verification without its fee.
ValueInWei_NoFee(w) ==
    IF w.op = "DepositStake" THEN w.args.amountInWei ELSE 0

\* The value sent with the transaction (the argument of prepareTransaction).
ValueInWei(w) ==
    CASE w.op = "DepositStake" -> w.args.amountInWei
      [] w.op = "VerifyMerkleProof" -> w.args.feeInWei
      [] OTHER -> 0

GasPrice == 20
GasEstimate == 100000

PendingNonceAt_Cached ==
    /\ wr.pc = "nonce"
    /\ IF wr.txs # << >> THEN wr' = [wr EXCEPT !.pc = "gasPrice"]
       ELSE \E err \in BOOLEAN :
              LET w == [wr EXCEPT !.calls = Append(@, Call("PendingNonceAt", Account))]
              IN  wr' = IF err THEN End(w, Fatal("PendingNonceAt"))
                        ELSE [w EXCEPT !.pc = "gasPrice",
                                       !.auth = [NoAuth EXCEPT !.Nonce = wr.node.nonce]]
    /\ UNCHANGED <<loc, prf, cdc>>

\* Lines 1140-1143.
PendingNonceAt ==
    /\ wr.pc = "nonce"
    /\ \E err \in BOOLEAN :
          LET w == [wr EXCEPT !.calls = Append(@, Call("PendingNonceAt", Account))]
          IN  wr' = IF err THEN End(w, Fatal("PendingNonceAt"))
                    ELSE [w EXCEPT !.pc = "gasPrice",
                                   !.auth = [NoAuth EXCEPT !.Nonce = wr.node.nonce]]
    /\ UNCHANGED <<loc, prf, cdc>>

\* Lines 1145-1158.
SuggestGasPrice ==
    /\ wr.pc = "gasPrice"
    /\ \E err \in BOOLEAN :
          LET w == [wr EXCEPT !.calls = Append(@, Call("SuggestGasPrice", << >>))]
          IN  wr' = IF err THEN End(w, Fatal("SuggestGasPrice"))
                    ELSE [w EXCEPT !.pc = "send",
                                   !.auth = [From |-> Account, Nonce |-> wr.auth.Nonce,
                                             Value |-> ValueInWei(wr), GasPrice |-> GasPrice]]
    /\ UNCHANGED <<loc, prf, cdc>>

VALUE_TYPE_TRANSACTION == 0
VALUE_TYPE_RECEIPT == 1
VALUE_TYPE_STATE == 2

\* A variant that passes the parent's bytes as the header and the header's
\* as the parent.
Input_HeadersSwapped(w) ==
    IF w.op = "DisputeBlock"
    THEN <<"disputeBlockHeader", w.inputs.parent, w.inputs.header,
           w.inputs.dataSetLookUp, w.inputs.witnessForLookup>>
    ELSE << w.op >>

\* The contract method the operation calls, and its arguments.
Input(w) ==
    CASE w.op = "DepositStake" -> <<"depositStake", w.args.amountInWei>>
      [] w.op = "WithdrawStake" -> <<"withdrawStake", w.args.amountInWei>>
      [] w.op = "SubmitRLPHeader" -> <<"submitBlock", w.args.rlpHeader>>
      [] w.op = "DisputeBlock" ->
            <<"disputeBlockHeader", w.inputs.header, w.inputs.parent,
              w.inputs.dataSetLookUp, w.inputs.witnessForLookup>>
      [] w.op = "VerifyMerkleProof" ->
            << CASE w.args.trieValueType = VALUE_TYPE_TRANSACTION -> "verifyTransaction"
                 [] w.args.trieValueType = VALUE_TYPE_RECEIPT -> "verifyReceipt"
                 [] w.args.trieValueType = VALUE_TYPE_STATE -> "verifyState"
                 [] OTHER -> "",
               w.args.feeInWei, w.args.rlpHeader, w.args.noOfConfirmations,
               w.args.rlpEncodedValue, w.args.path, w.args.rlpEncodedProofNodes >>
      [] w.op = "SetEpochData" ->
            <<"setEpochData", w.args.epoch, w.args.fullSizeIn128Resolution,
              w.args.branchDepth, w.loop.nodes, w.loop.start, w.loop.mnlen>>
      [] w.op = "DeployTestimonium" ->
            <<"deployTestimonium", w.inputs.header, w.inputs.totalDifficulty, "ethashContractAddress">>
      [] OTHER -> <<"deployEthash">>

\* The contract the transaction goes to; a deployment has no recipient.
Recipient(op) ==
    CASE op \in {"DeployTestimonium", "DeployEthash"} -> "nil"
      [] op = "SetEpochData" -> "ethashContract"
      [] OTHER -> "testimoniumContract"

\* Lines 319, 335, 415, 645, 836-852, 962, 1011, 1039: the transaction is
\* signed and sent.
Send ==
    /\ wr.pc = "send"
    /\ IF wr.op = "VerifyMerkleProof"
          /\ wr.args.trieValueType \notin {VALUE_TYPE_TRANSACTION, VALUE_TYPE_RECEIPT, VALUE_TYPE_STATE}
       THEN wr' = End(wr, Fatal("Unexpected trie value type"))
       ELSE \E err \in BOOLEAN :
              LET tx == [hash |-> Len(wr.txs) + 1, To |-> Recipient(wr.op),
                         Gas |-> GasEstimate, GasPrice |-> wr.auth.GasPrice,
                         Value |-> wr.auth.Value, Nonce |-> wr.auth.Nonce,
                         Data |-> Input(wr)]
                  w == [wr EXCEPT !.calls = Append(@, Call("SendTransaction", tx))]
              IN  wr' = IF err THEN End(w, Fail(wr.op, "SendTransaction"))
                        ELSE LET sent == [w EXCEPT !.txs = Append(@, tx),
                                                   !.node.nonce = @ + 1,
                                                   !.node.receipts = Append(@, Nil)]
                             IN  IF wr.op = "DepositStake" THEN End(sent, Ok)
                                 ELSE [sent EXCEPT !.pc = "spawn"]
    /\ UNCHANGED <<loc, prf, cdc>>

\* The kinds of event the operation filters for after a success receipt, in
\* the order of its filter calls.
EventKinds(w) ==
    CASE w.op = "WithdrawStake" -> <<"WithdrawStake">>
      [] w.op = "SubmitRLPHeader" -> <<"SubmitHeader">>
      [] w.op = "DisputeBlock" -> <<"RemoveBranch", "PoWValidationResult">>
      [] w.op = "VerifyMerkleProof" ->
            << CASE w.args.trieValueType = VALUE_TYPE_TRANSACTION -> "VerifyTransaction"
                 [] w.args.trieValueType = VALUE_TYPE_RECEIPT -> "VerifyReceipt"
                 [] OTHER -> "VerifyState" >>
      [] OTHER -> << >>

MaxLogs == 2

\* The events the contract's log can hold when the operation filters it: up
\* to MaxLogs events of the operation's kinds in block order, from the block
\* before the receipt's to the block after it; the operation's own
\* transaction emits in the receipt's block, and one event of a kind at most.
LogsFor(w, block) ==
    LET kinds == { EventKinds(w)[i] : i \in 1..Len(EventKinds(w)) }
        events == [kind : kinds, block : {block - 1, block + 1}, tx : {"other"}]
                  \cup [kind : kinds, block : {block}, tx : {"own", "other"}]
        logs == UNION { [1..n -> events] : n \in 0..MaxLogs }
    IN  { log \in logs :
            /\ \A i \in 1..(Len(log) - 1) : log[i].block <= log[i + 1].block
            /\ \A i, j \in 1..Len(log) :
                  (i # j /\ log[i].tx = "own" /\ log[j].tx = "own")
                      => log[i].kind # log[j].kind }

\* A variant that filters for the event whatever the status of the receipt.
CheckReceipt_IgnoreStatus ==
    /\ wr.pc = "awaited"
    /\ wr.op # "awaitTxReceipt"
    /\ IF wr.await.err # "" THEN wr' = End(wr, Fail(wr.op, wr.await.err))
       ELSE IF wr.op \in {"DeployTestimonium", "DeployEthash"} THEN wr' = End(wr, Ok)
       ELSE IF wr.op = "SetEpochData"
       THEN wr' = [wr EXCEPT !.pc = "chunk",
                             !.loop.start = @ + wr.loop.mnlen,
                             !.loop.nodes = << >>]
       ELSE \E log \in LogsFor(wr, wr.await.receipt.block) :
              wr' = [wr EXCEPT !.pc = "filter", !.fi = 1, !.node.log = log]
    /\ UNCHANGED <<loc, prf, cdc>>

\* Lines 342-349, 423-432, 653-662, 857-866, 970-981, 1018-1029, 1047-1060:
\* the result of the wait and the status of the receipt decide how the
\* operation goes on.
CheckReceipt ==
    /\ wr.pc = "awaited"
    /\ wr.op # "awaitTxReceipt"
    /\ IF wr.await.err # "" THEN wr' = End(wr, Fail(wr.op, wr.await.err))
       ELSE IF wr.await.receipt.status = 0 THEN wr' = [wr EXCEPT !.pc = "simulate"]
       ELSE IF wr.op \in {"DeployTestimonium", "DeployEthash"} THEN wr' = End(wr, Ok)
       ELSE IF wr.op = "SetEpochData"
       THEN wr' = [wr EXCEPT !.pc = "chunk",
                             !.loop.start = @ + wr.loop.mnlen,
                             !.loop.nodes = << >>]
       ELSE \E log \in LogsFor(wr, wr.await.receipt.block) :
              wr' = [wr EXCEPT !.pc = "filter", !.fi = 1, !.node.log = log]
    /\ UNCHANGED <<loc, prf, cdc>>

\* Lines 1073-1082.
createCallMsgFromTransaction(from, tx) ==
    [From |-> from, To |-> tx.To, Gas |-> tx.Gas, GasPrice |-> tx.GasPrice,
     Value |-> tx.Value, Data |-> tx.Data]

Percent == 37

\* "%!(NOVERB)" and "%!v(MISSING)" for a verb v.
NoVerb == <<37, 33, 40, 78, 79, 86, 69, 82, 66, 41>>
Missing(verb) == <<37, 33, verb, 40, 77, 73, 83, 83, 73, 78, 71, 41>>

\* fmt.Sprintf(format) without operands, for formats whose percent signs are
\* followed by a letter, by another percent sign or by nothing.
RECURSIVE Sprintf(_)
Sprintf(format) ==
    IF Len(format) = 0 THEN << >>
    ELSE IF format[1] # Percent THEN << format[1] >> \o Sprintf(Tail(format))
    ELSE IF Len(format) = 1 THEN NoVerb
    ELSE IF format[2] = Percent THEN << Percent >> \o Sprintf(Drop(format, 2))
    ELSE Missing(format[2]) \o Sprintf(Drop(format, 2))

ReasonOffset == 67

\* The return data of a call that reverts with Error(string): the selector
\* 08c379a0, the offset word, the length word, the string padded to a word.
RevertData(reason) ==
    <<8, 195, 121, 160>> \o Word(WordLen) \o Word(Len(reason)) \o reason
        \o Rep(0, WordLen - Len(reason))

\* What the node answers to the read-only call: an error, the data of a
\* revert without reason, or the data of a revert with a reason.
Reasons == { <<110, 111>>, <<53, 37>>, <<37, 100>> }
SimAnswers ==
    { [err |-> TRUE, code |-> << >>], [err |-> FALSE, code |-> << >>] }
    \cup { [err |-> FALSE, code |-> RevertData(r)] : r \in Reasons }

\* Lines 1063-1071 and the lines after each call of it: the call is run again
\* read-only at the receipt's block and the tail of its return data is
\* reported.
GetFailureReason ==
    /\ wr.pc = "simulate"
    /\ \E sim \in SimAnswers :
          LET msg == createCallMsgFromTransaction(Account, wr.txs[Cur])
              w == [wr EXCEPT !.node.sim = sim,
                              !.calls = Append(@, Call("CallContract",
                                                       <<msg, wr.await.receipt.block>>))]
          IN  wr' = IF sim.err THEN End(w, Fatal("CallContract"))
                    ELSE IF Len(sim.code) < ReasonOffset
                    THEN End(w, Panic("slice bounds out of range"))
                    ELSE End(w, [kind |-> IF wr.op = "WithdrawStake" THEN "error" ELSE "failed",
                                 msg |-> "Tx failed",
                                 reason |-> Sprintf(Drop(sim.code, ReasonOffset))])
    /\ UNCHANGED <<loc, prf, cdc>>

\* bind.FilterOpts{Start: start, End: nil}: nil stands for the latest block.
FilterOpts(start) == [Start |-> start, End |-> [nil |-> TRUE, value |-> 0]]

\* The events of a kind the node returns for a filter.
FilterLogs(log, kind, opts) ==
    SelectSeq(log, LAMBDA e : /\ e.kind = kind
                              /\ e.block >= opts.Start
                              /\ (opts.End.nil \/ e.block <= opts.End.value))

\* Lines 351-365, 434-446, 664-690, 868-883 and 886-938: one filter call and
\* the use of its first event.
FilterEvents ==
    /\ wr.pc = "filter"
    /\ \E err \in BOOLEAN :
          LET kind == EventKinds(wr)[wr.fi]
              opts == FilterOpts(wr.await.receipt.block)
              found == FilterLogs(wr.node.log, kind, opts)
              w == [wr EXCEPT !.filters = Append(@, [kind |-> kind, opts |-> opts]),
                              !.calls = Append(@, Call("FilterLogs", <<kind, opts>>))]
              next == [w EXCEPT !.reported = IF Len(found) > 0 THEN Append(@, found[1]) ELSE @]
          IN  wr' = IF err THEN End(w, Fail(wr.op, "FilterLogs"))
                    ELSE IF Len(found) = 0 /\ wr.op = "VerifyMerkleProof"
                    THEN End(w, Fatal("no event found"))
                    ELSE IF wr.fi = Len(EventKinds(wr)) THEN End(next, Ok)
                    ELSE [next EXCEPT !.fi = @ + 1]
    /\ UNCHANGED <<loc, prf, cdc>>

----------------------------------------------------------------------------
(* The inputs of the write operations.                                     *)

\* The disputed header, its parent, and the hashes they were submitted under.
DisputedHash == Rep(9, HashLength)
ParentHash == Rep(171, HashLength)
DisputedHeader == [GenesisHeader EXCEPT !.ParentHash = ParentHash, !.Number = 257]

\* The calldata of the transaction that submitted a header.
SubmitCallData(rlpHeader) ==
    AbiCallData(SubmitBlockSelector, WordLen, rlpHeader,
                (WordLen - (Len(rlpHeader) % WordLen)) % WordLen)

Mined(data) == [err |-> FALSE, pending |-> FALSE, data |-> data]

\* The submissions the contract's log can hold: both headers, one of them
\* only, a submission that is no header, a pending one, a failing filter.
DisputeChains ==
    LET header == [data |-> DisputedHash, tx |-> "t1"]
        parent == [data |-> ParentHash, tx |-> "t2"]
        txs == [t \in TxIds |->
                  IF t = "t1" THEN Mined(SubmitCallData(encodeHeaderToRLP(DisputedHeader)))
                  ELSE Mined(SubmitCallData(encodeHeaderToRLP(GenesisHeader)))]
        both == [log |-> <<parent, header>>, filterErr |-> FALSE, txs |-> txs]
    IN  { both,
          [both EXCEPT !.log = <<parent>>],
          [both EXCEPT !.log = <<header>>],
          [both EXCEPT !.txs["t1"] = Mined(SubmitCallData(Payload(200, MaxPayload)))],
          [both EXCEPT !.txs["t2"].pending = TRUE],
          [both EXCEPT !.filterErr = TRUE] }

MaxNodes == 41

\* An epoch long enough to have a node after the skipped ones.
MaxSkipNodes == 441

WriteStarts ==
    { WrStart(op, [exists |-> e, amountInWei |-> 3], NoChain) :
        op \in {"DepositStake", "WithdrawStake"}, e \in BOOLEAN }
    \cup { WrStart("SubmitRLPHeader", [exists |-> e, rlpHeader |-> <<193, 128>>], NoChain) :
             e \in BOOLEAN }
    \cup { WrStart("VerifyMerkleProof",
                   [exists |-> e, feeInWei |-> 4, rlpHeader |-> <<193, 128>>,
                    trieValueType |-> t, rlpEncodedValue |-> <<1>>, path |-> <<128>>,
                    rlpEncodedProofNodes |-> <<192>>, noOfConfirmations |-> 1], NoChain) :
             e \in BOOLEAN, t \in 0..3 }
    \cup { WrStart("DisputeBlock", [exists |-> TRUE, blockHash |-> DisputedHash], chain) :
             chain \in DisputeChains }
    \cup { WrStart("DisputeBlock", [exists |-> FALSE, blockHash |-> DisputedHash], NoChain) }
    \cup { WrStart("SetEpochData",
                   [exists |-> e, epoch |-> epoch, nodes |-> n,
                    fullSizeIn128Resolution |-> 8388593, branchDepth |-> 10], NoChain) :
             e \in BOOLEAN, epoch \in {SkipEpoch - 1, SkipEpoch}, n \in {0, 1, MaxNodes} }
    \cup { WrStart("SetEpochData",
                   [exists |-> TRUE, epoch |-> SkipEpoch, nodes |-> MaxSkipNodes,
                    fullSizeIn128Resolution |-> 8388593, branchDepth |-> 10], NoChain) }
    \cup { WrStart("DeployTestimonium",
                   [exists |-> e, sourceExists |-> se, genesisBlockNumber |-> 256], NoChain) :
             e \in BOOLEAN, se \in BOOLEAN }
    \cup { WrStart("DeployEthash", [exists |-> e], NoChain) : e \in BOOLEAN }
    \cup { WrStart(op, [exists |-> e], NoChain) : op \in ReadOps, e \in BOOLEAN }

InitWrite ==
    /\ loc = Idle
    /\ prf = Idle
    /\ cdc = Idle
    /\ wr \in WriteStarts

NextWrite ==
    \/ CheckChain
    \/ ReadCall
    \/ LocateHeader
    \/ DecodeHeader
    \/ LocateParent
    \/ HeaderByNumber
    \/ TotalDifficulty
    \/ NextChunk
    \/ PendingNonceAt
    \/ SuggestGasPrice
    \/ Send
    \/ Spawn
    \/ EnterSelect
    \/ Tick
    \/ Timeout
    \/ \E k \in 1..Len(wr.txs) : Mine(k)
    \/ \E i \in 1..Len(wr.pollers) : Poll(i)
    \/ Deliver
    \/ CheckReceipt
    \/ GetFailureReason
    \/ FilterEvents

SpecWrite == InitWrite /\ [][NextWrite]_vars

----------------------------------------------------------------------------
(* Claims about the write operations.                                      *)

\* The operation has ended after its last transaction got a receipt with
\* failure status.
EndedAfterFailure ==
    /\ wr.op # "awaitTxReceipt"
    /\ wr.pc = "done"
    /\ wr.await.done
    /\ wr.await.err = ""
    /\ wr.await.receipt.status = 0

CallsNamed(name) == SelectSeq(wr.calls, LAMBDA c : c.call = name)

\* The reason string in the return data of a revert; empty when the data
\* hold none.
ReasonIn(code) ==
    IF Len(code) < SelectorLen + 2 * WordLen THEN << >>
    ELSE LET n == WordAt(code, SelectorLen + WordLen)
         IN  SubSeq(code, SelectorLen + 2 * WordLen + 1, SelectorLen + 2 * WordLen + n)

Occurs(part, whole) ==
    \E at \in 0..(Len(whole) - Len(part)) : SubSeq(whole, at + 1, at + Len(part)) = part

\* C8: when the awaited receipt has failure status, the operation runs the
\* original call again read-only at the receipt's block with the same sender,
\* recipient, gas, gas price, value and data, then fails with a reverted
\* transaction error that carries the reason, and filters no events.  (The
\* read-only call is taken to answer; a printed failure counts as failing.)
C8_FailureReported ==
    (EndedAfterFailure /\ ~wr.node.sim.err) =>
        LET tx == wr.txs[Cur]
            sims == CallsNamed("CallContract")
        IN  /\ Len(sims) = 1
            /\ sims[1].arg = << [From |-> Account, To |-> tx.To, Gas |-> tx.Gas,
                                 GasPrice |-> tx.GasPrice, Value |-> tx.Value,
                                 Data |-> tx.Data],
                                wr.await.receipt.block >>
            /\ wr.out.kind \in {"failed", "error"}
            /\ wr.out.msg = "Tx failed"
            /\ Occurs(ReasonIn(wr.node.sim.code), wr.out.reason)
            /\ wr.filters = << >>

\* A filter call of the operation that answered, and with no event.
EmptyFilter(i) ==
    /\ i \in 1..Len(wr.filters)
    /\ i = Len(wr.filters) => wr.out.msg # "FilterLogs"
    /\ FilterLogs(wr.node.log, wr.filters[i].kind, wr.filters[i].opts) = << >>

\* C9: when the receipt has success status but the event filter yields no
\* event, an operation that extracts an event (submit header, dispute,
\* verify, withdraw stake) fails with the no-event-found error and does not
\* complete normally.
C9_NoEventFails ==
    (wr.pc = "done" /\ \E i \in 1..Len(wr.filters) : EmptyFilter(i)) =>
        /\ wr.out.kind \in {"fatal", "error"}
        /\ wr.out.msg = "no event found"

\* C10: on a success receipt, the event filter covers exactly the receipt's
\* block: the start and the end of the filtered range both equal the
\* receipt's block number, so no event of a later block is returned.
C10_FilterExactBlock ==
    /\ \A i \in 1..Len(wr.filters) :
          /\ wr.filters[i].opts.Start = wr.await.receipt.block
          /\ ~wr.filters[i].opts.End.nil
          /\ wr.filters[i].opts.End.value = wr.await.receipt.block
    /\ \A i \in 1..Len(wr.reported) : wr.reported[i].block = wr.await.receipt.block

\* The sends of the operation, those that failed included.
Sends == CallsNamed("SendTransaction")

\* The triple of a header for the PoW-dataset routine: its number, its nonce
\* and the hash of the list of its first thirteen fields.
SealTriple(h) ==
    << h.Number, h.Nonce,
       Keccak256(RlpListOf(Concat([i \in 1..SealFields |-> RlpString(FieldContents(h)[i])]))) >>

\* C13: in DisputeBlock the PoW-dataset routine is called with exactly the
\* triple (number, nonce, keccak256 of the encoding without nonce) of the
\* header decoded from the recovered submission bytes, and the element array
\* and the witness array it returns are passed to the dispute transaction as
\* they are.
C13_DatasetPassedThrough ==
    (wr.op = "DisputeBlock" /\ Len(wr.inputs.meta) > 0) =>
        LET h == decodeHeaderFromRLP(wr.inputs.header).header
        IN  /\ wr.inputs.meta = SealTriple(h)
            /\ \A k \in 1..Len(Sends) :
                  /\ Sends[k].arg.Data[1] = "disputeBlockHeader"
                  /\ Sends[k].arg.Data[4] = DAGElementArray(SealTriple(h))
                  /\ Sends[k].arg.Data[5] = DAGProofArray(SealTriple(h))

\* The dispute transaction was sent for the header of block 257.
C13_Witness ==
    /\ wr.op = "DisputeBlock"
    /\ Len(wr.txs) = 1
    /\ wr.inputs.meta[1] = DisputedHeader.Number
    /\ wr.inputs.meta[2] = DisputedHeader.Nonce
    /\ wr.txs[1].Data[4] = DAGElementArray(SealTriple(DisputedHeader))
    /\ wr.txs[1].Data[5] = DAGProofArray(SealTriple(DisputedHeader))

\* DisputeBlock on a configured chain whose submission log can be read.
Disputing ==
    /\ wr.op = "DisputeBlock"
    /\ wr.args.exists
    /\ ~wr.node.chain.filterErr

NoSubmissionAbort ==
    /\ wr.txs = << >>
    /\ Sends = << >>
    /\ wr.pc = "done" => (wr.out.kind = "fatal" /\ wr.out.msg = "NoSubmitEvent")
    /\ wr.pc \in {"start", "decode", "locateParent", "done"}

\* C14: in DisputeBlock, if no submission record is found for the disputed
\* header or for its parent hash, the operation aborts with the
\* no-submission-found failure and never sends a dispute transaction; a
\* dispute transaction is sent only after the bytes of both the header and
\* the parent were recovered.
C14_NoSubmissionAborts ==
    Disputing =>
        LET log == wr.node.chain.log
            d == decodeHeaderFromRLP(wr.inputs.header)
        IN  /\ MatchingEvents(log, wr.args.blockHash) = {} => NoSubmissionAbort
            /\ (Len(wr.inputs.header) > 0 /\ d.ok
                  /\ MatchingEvents(log, d.header.ParentHash) = {}) => NoSubmissionAbort
            /\ Sends # << >> =>
                  /\ MatchingEvents(log, wr.args.blockHash) # {}
                  /\ wr.inputs.header
                        = DynParam(wr.node.chain.txs[log[FirstMatch(log, wr.args.blockHash)].tx].data)
                  /\ d.ok
                  /\ MatchingEvents(log, d.header.ParentHash) # {}
                  /\ wr.inputs.parent
                        = DynParam(wr.node.chain.txs[log[FirstMatch(log, d.header.ParentHash)].tx].data)
                  /\ Len(CallsNamed("FilterSubmitHeader")) = 2

\* The dispute ended with the no-submission failure because the parent's
\* record is missing, after the header's bytes were recovered and decoded.
C14_Witness ==
    /\ Disputing
    /\ wr.pc = "done"
    /\ wr.out.msg = "NoSubmitEvent"
    /\ Len(wr.inputs.header) > 0
    /\ decodeHeaderFromRLP(wr.inputs.header).ok
    /\ MatchingEvents(wr.node.chain.log, ParentHash) = {}
    /\ Sends = << >>

\* The positions in the call trace of the calls of a name.
Positions(name) == { p \in 1..Len(wr.calls) : wr.calls[p].call = name }

\* The position of the send before position p, 0 when there is none.
SendBefore(p) ==
    LET before == { q \in Positions("SendTransaction") : q < p }
    IN  IF before = {} THEN 0 ELSE CHOOSE q \in before : \A r \in before : r <= q

\* C15: every transaction sent uses signing parameters built for it alone:
\* between the previous send of the operation and this one the pending nonce
\* and the suggested gas price are queried exactly once each, the queries
\* start only after the previous transaction was awaited, the transaction
\* carries the nonce the node held at that query, and no two transactions of
\* the operation carry the same nonce.
C15_FreshSigningParams ==
    /\ \A p \in Positions("SendTransaction") :
          /\ Cardinality({ n \in Positions("PendingNonceAt") : SendBefore(p) < n /\ n < p }) = 1
          /\ Cardinality({ g \in Positions("SuggestGasPrice") : SendBefore(p) < g /\ g < p }) = 1
          /\ wr.calls[p].arg.Nonce
                = FirstNonce + Cardinality({ q \in Positions("SendTransaction") : q < p })
    /\ \A j, k \in 1..Len(wr.txs) : j # k => wr.txs[j].Nonce # wr.txs[k].Nonce
    /\ Cardinality(Positions("PendingNonceAt")) <= Len(wr.txs) + 1
    /\ Cardinality(Positions("SuggestGasPrice")) <= Len(wr.txs) + 1
    /\ (wr.pc \in {"nonce", "gasPrice", "send"} /\ wr.txs # << >>) =>
          /\ Len(wr.pollers) = Len(wr.txs)
          /\ wr.await.done
          /\ wr.await.err = ""
          /\ wr.await.receipt = wr.node.receipts[Cur]

\* SetEpochData sent its second chunk, with the nonce after the first one's.
C15_Witness ==
    /\ wr.op = "SetEpochData"
    /\ Len(wr.txs) = 2
    /\ wr.txs[1].Nonce = FirstNonce
    /\ wr.txs[2].Nonce = FirstNonce + 1
    /\ Cardinality(Positions("PendingNonceAt")) = 2
    /\ Cardinality(Positions("SuggestGasPrice")) = 2

\* The last transaction handed to the node was refused.
SendFailed == Len(Sends) > Len(wr.txs)

\* The wait of the running operation returned a receipt with success status.
SuccessReceipt ==
    /\ wr.await.done
    /\ wr.await.err = ""
    /\ wr.await.receipt # Nil
    /\ wr.await.receipt.status = 1

\* C17: within one write operation the steps are strictly ordered: a receipt
\* wait starts only for a transaction that was sent successfully, and an
\* event filter is issued only after the wait returned a receipt with success
\* status; no event filter is issued after a send error, a timeout or a
\* receipt with failure status.
C17_StrictOrder ==
    wr.op \notin {"idle", "awaitTxReceipt"} =>
        /\ Len(wr.pollers) <= Len(wr.txs)
        /\ \A i \in 1..Len(wr.pollers) : wr.pollers[i].tx = i
        /\ wr.pc \in {"enter", "select", "awaited", "simulate", "filter"} =>
              /\ Len(wr.txs) >= 1
              /\ Len(wr.pollers) = Len(wr.txs)
              /\ ~SendFailed
        /\ SendFailed =>
              /\ wr.pc = "done"
              /\ wr.calls[Len(wr.calls)].call = "SendTransaction"
              /\ wr.filters = << >>
        /\ (wr.pc = "filter" \/ wr.filters # << >>) =>
              /\ SuccessReceipt
              /\ wr.await.receipt = wr.node.receipts[Cur]
              /\ \A f \in Positions("FilterLogs"), p \in Positions("SendTransaction") : p < f
        /\ Cardinality(Positions("FilterLogs")) = Len(wr.filters)
        /\ (wr.await.done /\ ~SuccessReceipt) => wr.filters = << >> /\ wr.pc # "filter"

C17_Witness ==
    /\ wr.op = "SubmitRLPHeader"
    /\ wr.pc = "done"
    /\ Len(wr.txs) = 1
    /\ Len(wr.pollers) = 1
    /\ SuccessReceipt
    /\ Len(wr.filters) = 1
    /\ Positions("FilterLogs") # {}

\* The remote calls whose error ends an operation under the error's name.
RemoteCalls == {"PendingNonceAt", "SuggestGasPrice", "SendTransaction", "CallContract",
                "FilterLogs", "TransactionReceipt"}

\* A receipt request of a polling loop returned an error.
ReceiptRequestFailed == \E i \in 1..Len(wr.pollers) : wr.pollers[i].failed >= 1

\* C18: no remote call is retried: once a remote call has returned an error
\* the operation is aborted with that error, the failed call being its last,
\* and the call is not issued again within the operation.
C18_NoRetry ==
    /\ [](wr.out.msg \in RemoteCalls =>
            /\ wr.pc = "done"
            /\ wr.calls # << >>
            /\ wr.calls[Len(wr.calls)].call = wr.out.msg)
    /\ [](ReceiptRequestFailed => (wr.pc = "done" /\ wr.out.msg = "TransactionReceipt"))
    /\ [][\A i \in 1..Len(wr.pollers) :
            wr.pollers[i].failed >= 1 => wr'.pollers[i].requests = wr.pollers[i].requests]_vars

\* awaitTxReceipt has returned the timeout error.
TimedOut == wr.await.done /\ wr.await.err = "timeout"

\* C19: when awaitTxReceipt returns the timeout error its polling goroutine
\* is not cancelled: the return leaves the goroutine as it was, after the
\* return the goroutine still issues its next receipt request, and in no
\* reachable state has it terminated (it is about to request or about to
\* hand over a receipt).
C19_PollerNotCancelled ==
    /\ [](wr.op = "awaitTxReceipt" =>
            \A i \in 1..Len(wr.pollers) :
               /\ wr.pollers[i].pc \in {"request", "send"}
               /\ (TimedOut /\ wr.pollers[i].pc = "request"
                     /\ wr.pollers[i].requests < MaxPolls) => ENABLED Poll(i))
    /\ [][(~TimedOut /\ TimedOut') => wr'.pollers = wr.pollers]_vars

C19_Witness ==
    /\ wr.op = "awaitTxReceipt"
    /\ wr.pc = "awaited"
    /\ TimedOut
    /\ Len(wr.pollers) = 1
    /\ wr.pollers[1].pc = "request"
    /\ wr.pollers[1].requests \in 1..(MaxPolls - 1)
    /\ ENABLED Poll(1)

\* C24: the event an operation reports after a success receipt was emitted
\* by the operation's own transaction, also when the filtered range holds an
\* event of the same kind that another transaction emitted, earlier in the
\* same block or in a later block.
C24_ReportsOwnEvent ==
    (wr.op # "awaitTxReceipt" /\ wr.filters # << >>) =>
        /\ \A i \in 1..Len(wr.reported) :
              /\ wr.reported[i].tx = "own"
              /\ wr.reported[i].block = wr.await.receipt.block
        /\ \A i \in 1..Len(wr.filters) :
              (/\ i < Len(wr.filters) \/ wr.pc = "done"
               /\ i = Len(wr.filters) => wr.out.msg # "FilterLogs"
               /\ \E k \in 1..Len(wr.node.log) :
                     /\ wr.node.log[k].kind = wr.filters[i].kind
                     /\ wr.node.log[k].tx = "own") =>
                  \E j \in 1..Len(wr.reported) :
                     /\ wr.reported[j].kind = wr.filters[i].kind
                     /\ wr.reported[j].tx = "own"

\* awaitTxReceipt has returned a receipt to its caller.
Delivered == wr.await.done /\ wr.await.err = ""

\* C25: the polling goroutine of awaitTxReceipt requests the receipt only
\* until one is found: once a receipt was handed to the waiting caller the
\* goroutine has terminated and issues no further receipt request.
C25_PollerStops ==
    /\ [](wr.op = "awaitTxReceipt" /\ Delivered =>
            \A i \in 1..Len(wr.pollers) :
               /\ wr.pollers[i].pc \notin {"request", "send"}
               /\ ~ENABLED Poll(i))
    /\ [][(wr.op = "awaitTxReceipt" /\ Delivered) =>
            \A i \in 1..Len(wr.pollers) :
               wr'.pollers[i].requests = wr.pollers[i].requests]_vars

\* The bytes the locator recovers for a hash from the submission log: the
\* dynamic byte array in the calldata of the first matching submission.
Recovered(h) ==
    LET log == wr.node.chain.log
    IN  DynParam(wr.node.chain.txs[log[FirstMatch(log, h)].tx].data)

\* C26: the dispute transaction carries, as encoded header, exactly the bytes
\* the locator recovered for the disputed block hash and, as encoded parent
\* header, exactly the bytes the locator recovered for the ParentHash field
\* of the header decoded from the former.
C26_DisputeCarriesRecovered ==
    wr.op = "DisputeBlock" =>
        \A k \in 1..Len(Sends) :
            LET data == Sends[k].arg.Data
                d == decodeHeaderFromRLP(Recovered(wr.args.blockHash))
            IN  /\ Len(Sends) = 1
                /\ data[1] = "disputeBlockHeader"
                /\ MatchingEvents(wr.node.chain.log, wr.args.blockHash) # {}
                /\ data[2] = Recovered(wr.args.blockHash)
                /\ d.ok
                /\ MatchingEvents(wr.node.chain.log, d.header.ParentHash) # {}
                /\ data[3] = Recovered(d.header.ParentHash)

\* The dispute was sent with the submitted bytes of block 257 and of its
\* parent, which differ.
C26_Witness ==
    /\ wr.op = "DisputeBlock"
    /\ Len(wr.txs) = 1
    /\ wr.txs[1].Data[2] = encodeHeaderToRLP(DisputedHeader)
    /\ wr.txs[1].Data[3] = encodeHeaderToRLP(GenesisHeader)
    /\ wr.txs[1].Data[2] # wr.txs[1].Data[3]
    /\ decodeHeaderFromRLP(wr.txs[1].Data[2]).header.ParentHash = ParentHash

\* The contract method and the event kind of a trie value type.
VerifyMethod(t) ==
    CASE t = VALUE_TYPE_TRANSACTION -> "verifyTransaction"
      [] t = VALUE_TYPE_RECEIPT -> "verifyReceipt"
      [] OTHER -> "verifyState"

VerifyEvent(t) ==
    CASE t = VALUE_TYPE_TRANSACTION -> "VerifyTransaction"
      [] t = VALUE_TYPE_RECEIPT -> "VerifyReceipt"
      [] OTHER -> "VerifyState"

KnownValueTypes == {VALUE_TYPE_TRANSACTION, VALUE_TYPE_RECEIPT, VALUE_TYPE_STATE}

\* C27: VerifyMerkleProof sends one verification transaction per invocation,
\* of the kind the trie value type selects, with the fee as the value of the
\* transaction and the header, confirmation count, value, path and proof
\* nodes passed as given; on success the result is read from the event of
\* that same kind; for a value type outside the three known ones no
\* transaction is sent.
C27_OneVerification ==
    wr.op = "VerifyMerkleProof" =>
        LET a == wr.args
        IN  /\ Len(Sends) <= 1
            /\ a.trieValueType \notin KnownValueTypes =>
                  /\ Sends = << >>
                  /\ wr.pc = "done" => wr.out.kind = "fatal"
            /\ wr.pc \in {"spawn", "enter", "select", "awaited", "simulate", "filter"} =>
                  Len(wr.txs) = 1
            /\ (wr.pc = "done" /\ wr.out.kind = "ok") => Len(wr.txs) = 1
            /\ \A k \in 1..Len(Sends) :
                  /\ a.trieValueType \in KnownValueTypes
                  /\ Sends[k].arg.To = "testimoniumContract"
                  /\ Sends[k].arg.Value = a.feeInWei
                  /\ Sends[k].arg.Data
                        = << VerifyMethod(a.trieValueType), a.feeInWei, a.rlpHeader,
                             a.noOfConfirmations, a.rlpEncodedValue, a.path,
                             a.rlpEncodedProofNodes >>
            /\ \A i \in 1..Len(wr.filters) :
                  /\ Len(wr.filters) = 1
                  /\ wr.filters[i].kind = VerifyEvent(a.trieValueType)
            /\ \A i \in 1..Len(wr.reported) :
                  wr.reported[i].kind = VerifyEvent(a.trieValueType)
            /\ (wr.pc = "done" /\ wr.out.kind = "ok") =>
                  Len(wr.filters) = 1 /\ Len(wr.reported) = 1

C27_Witness ==
    /\ wr.op = "VerifyMerkleProof"
    /\ wr.args.trieValueType = VALUE_TYPE_RECEIPT
    /\ wr.pc = "done"
    /\ wr.out.kind = "ok"
    /\ Len(wr.txs) = 1
    /\ wr.txs[1].Value = wr.args.feeInWei
    /\ wr.txs[1].Data[1] = "verifyReceipt"
    /\ Len(wr.reported) = 1
    /\ wr.reported[1].kind = "VerifyReceipt"

\* The chunk a SetEpochData transaction carries: its nodes, start and length.
ChunkOf(tx) == [nodes |-> tx.Data[5], start |-> tx.Data[6], mnlen |-> tx.Data[7]]

\* C28: in SetEpochData for an epoch other than 128 the chunks sent are
\* consecutive slices of the Merkle node list in order, each of at most 40
\* nodes and all but the last of exactly 40, each sent with start equal to
\* the number of nodes of all chunks before it and length equal to its own
\* node count; when every chunk transaction succeeds they cover every node
\* exactly once; a chunk is sent only after every chunk before it got a
\* receipt with success status.
C28_ChunksCoverNodes ==
    (wr.op = "SetEpochData" /\ wr.args.epoch # SkipEpoch) =>
        /\ \A j \in 1..Len(Sends) :
              LET c == ChunkOf(Sends[j].arg)
              IN  /\ Sends[j].arg.Data[1] = "setEpochData"
                  /\ Sends[j].arg.Data[2] = wr.args.epoch
                  /\ c.start = (j - 1) * ChunkSize
                  /\ c.mnlen = Len(c.nodes)
                  /\ c.mnlen \in 1..ChunkSize
                  /\ c.start + c.mnlen <= wr.args.nodes
                  /\ c.start + c.mnlen < wr.args.nodes => c.mnlen = ChunkSize
                  /\ c.nodes = [i \in 1..c.mnlen |-> MerkleNode(c.start + i - 1)]
                  /\ j < Len(Sends) =>
                        /\ j <= Len(wr.txs)
                        /\ wr.node.receipts[j] # Nil
                        /\ wr.node.receipts[j].status = 1
        /\ (wr.pc = "done" /\ wr.out.kind = "ok") =>
              /\ Len(wr.txs) = Len(Sends)
              /\ \A k \in 0..(wr.args.nodes - 1) :
                    Cardinality({ j \in 1..Len(wr.txs) :
                        /\ ChunkOf(wr.txs[j]).start <= k
                        /\ k < ChunkOf(wr.txs[j]).start + ChunkOf(wr.txs[j]).mnlen
                        /\ ChunkOf(wr.txs[j]).nodes[k - ChunkOf(wr.txs[j]).start + 1]
                              = MerkleNode(k) }) = 1

C28_Witness ==
    /\ wr.op = "SetEpochData"
    /\ wr.args.epoch # SkipEpoch
    /\ wr.args.nodes = MaxNodes
    /\ wr.pc = "done"
    /\ wr.out.kind = "ok"
    /\ Len(wr.txs) = 2
    /\ ChunkOf(wr.txs[1]).mnlen = ChunkSize
    /\ ChunkOf(wr.txs[2]).start = ChunkSize
    /\ ChunkOf(wr.txs[2]).mnlen = MaxNodes - ChunkSize

\* C29: in SetEpochData for epoch 128 every chunk that completes at a node
\* index below 440 is skipped: no transaction is sent for it while the start
\* still advances by its length, so that nodes 0..439 are never submitted
\* and the first transaction sent has start 440; for every other epoch no
\* chunk is skipped.
C29_SkipBelow440 ==
    wr.op = "SetEpochData" =>
        /\ wr.args.epoch = SkipEpoch =>
              /\ \A j \in 1..Len(Sends) :
                    LET c == ChunkOf(Sends[j].arg)
                    IN  /\ c.start = SkipBelow + (j - 1) * ChunkSize
                        /\ c.mnlen = Len(c.nodes)
                        /\ \A i \in 1..c.mnlen :
                              /\ c.nodes[i] = MerkleNode(c.start + i - 1)
                              /\ c.start + i - 1 >= SkipBelow
              /\ wr.args.nodes <= SkipBelow => Sends = << >>
              /\ (wr.pc = "chunk" /\ wr.loop.k <= SkipBelow) =>
                    wr.loop.start = wr.loop.k /\ Sends = << >>
              /\ (wr.pc = "done" /\ wr.out.kind = "ok" /\ wr.args.nodes > SkipBelow) =>
                    Sends # << >>
        /\ wr.args.epoch # SkipEpoch =>
              /\ Sends # << >> => ChunkOf(Sends[1].arg).start = 0
              /\ (wr.pc = "chunk" /\ wr.loop.k > 0) => Sends # << >>
              /\ (wr.pc = "done" /\ wr.out.kind = "ok" /\ wr.args.nodes > 0) =>
                    Len(wr.txs) * ChunkSize >= wr.args.nodes

C29_Witness ==
    /\ wr.op = "SetEpochData"
    /\ wr.args.epoch = SkipEpoch
    /\ wr.args.nodes > SkipBelow
    /\ wr.pc = "done"
    /\ wr.out.kind = "ok"
    /\ Len(wr.txs) = 1
    /\ ChunkOf(wr.txs[1]).start = SkipBelow
    /\ ChunkOf(wr.txs[1]).nodes[1] = MerkleNode(SkipBelow)

\* The operation was called with a chain id that is not configured.
ChainMissing ==
    /\ wr.op # "awaitTxReceipt"
    /\ \/ ~wr.args.exists
       \/ wr.op = "DeployTestimonium" /\ ~wr.args.sourceExists

\* C30: every operation that takes a chain id fails cleanly when the chain is
\* not configured: it ends with the chain-does-not-exist failure, before any
\* remote call and without dereferencing the missing chain entry.
C30_MissingChainFailsCleanly ==
    ChainMissing =>
        /\ wr.calls = << >>
        /\ wr.txs = << >>
        /\ wr.pc \in {"start", "done"}
        /\ wr.pc = "done" =>
              /\ wr.out.kind \in {"error", "fatal"}
              /\ wr.out.msg = "chain does not exist"

----------------------------------------------------------------------------
(* Two write operations run at the same time from one account against one  *)
(* node: each runs prepareTransaction and hands its transaction to the     *)
(* node.  The chain of both exists.  DepositStake returns after the send;  *)
(* SubmitRLPHeader goes on to wait for the receipt.                        *)

Procs == {1, 2}

\* A variant in which a nonce read by another operation and not yet used is
\* reserved.
NonceAt_Reserved(p) ==
    wr.node.nonce
      + Cardinality({ q \in Procs \ {p} : wr.ops[q].pc \in {"gasPrice", "send"} })

\* Line 1140: the node answers with the next nonce of the account, the
\* transactions it holds as pending counted.
NonceAt(p) == wr.node.nonce

\* Lines 1140-1143 in operation p.
ConcurrentPendingNonceAt(p) ==
    /\ wr.pc = "concurrent"
    /\ wr.ops[p].pc = "nonce"
    /\ \E err \in BOOLEAN :
          LET w == [wr EXCEPT !.calls = Append(@, Call("PendingNonceAt", p))]
          IN  wr' = IF err
                    THEN [w EXCEPT !.ops[p].pc = "done", !.ops[p].out = Fatal("PendingNonceAt")]
                    ELSE [w EXCEPT !.ops[p].pc = "gasPrice",
                                   !.ops[p].auth = [NoAuth EXCEPT !.Nonce = NonceAt(p)]]
    /\ UNCHANGED <<loc, prf, cdc>>

\* Lines 1145-1158 in operation p.
ConcurrentSuggestGasPrice(p) ==
    /\ wr.pc = "concurrent"
    /\ wr.ops[p].pc = "gasPrice"
    /\ \E err \in BOOLEAN :
          LET w == [wr EXCEPT !.calls = Append(@, Call("SuggestGasPrice", p))]
          IN  wr' = IF err
                    THEN [w EXCEPT !.ops[p].pc = "done", !.ops[p].out = Fatal("SuggestGasPrice")]
                    ELSE [w EXCEPT !.ops[p].pc = "send",
                                   !.ops[p].auth = [From |-> Account,
                                                    Nonce |-> wr.ops[p].auth.Nonce,
                                                    Value |-> ValueInWei(wr.ops[p]),
                                                    GasPrice |-> GasPrice]]
    /\ UNCHANGED <<loc, prf, cdc>>

\* Lines 319-326 and 415-421 in operation p: the transaction is signed with
\* the prepared nonce and sent; the node takes it or refuses it.
ConcurrentSend(p) ==
    /\ wr.pc = "concurrent"
    /\ wr.ops[p].pc = "send"
    /\ \E err \in BOOLEAN :
          LET o == wr.ops[p]
              tx == [To |-> Recipient(o.op), Gas |-> GasEstimate,
                     GasPrice |-> o.auth.GasPrice, Value |-> o.auth.Value,
                     Nonce |-> o.auth.Nonce, Data |-> Input(o)]
              w == [wr EXCEPT !.calls = Append(@, Call("SendTransaction", p)),
                              !.sent = Append(@, [proc |-> p, tx |-> tx, refused |-> err])]
          IN  wr' = IF err
                    THEN [w EXCEPT !.ops[p].pc = "done",
                                   !.ops[p].out = Fail(o.op, "SendTransaction")]
                    ELSE [w EXCEPT !.node.nonce = IF tx.Nonce >= @ THEN tx.Nonce + 1 ELSE @,
                                   !.ops[p].pc = IF o.op = "DepositStake" THEN "done" ELSE "spawn",
                                   !.ops[p].out = IF o.op = "DepositStake" THEN Ok ELSE NoOut]
    /\ UNCHANGED <<loc, prf, cdc>>

\* An operation about to run prepareTransaction.
ConcurrentOps ==
    { [op |-> "DepositStake", args |-> [exists |-> TRUE, amountInWei |-> 3],
       pc |-> "nonce", auth |-> NoAuth, out |-> NoOut],
      [op |-> "SubmitRLPHeader", args |-> [exists |-> TRUE, rlpHeader |-> <<193, 128>>],
       pc |-> "nonce", auth |-> NoAuth, out |-> NoOut] }

InitConcurrent ==
    /\ loc = Idle
    /\ prf = Idle
    /\ cdc = Idle
    /\ \E ops \in [Procs -> ConcurrentOps] :
          wr = [pc |-> "concurrent", node |-> [nonce |-> FirstNonce], ops |-> ops,
                calls |-> << >>, sent |-> << >>]

NextConcurrent ==
    \/ \E p \in Procs : ConcurrentPendingNonceAt(p)
    \/ \E p \in Procs : ConcurrentSuggestGasPrice(p)
    \/ \E p \in Procs : ConcurrentSend(p)

SpecConcurrent == InitConcurrent /\ [][NextConcurrent]_vars

\* The positions of the calls of a name by operation p.
CallsBy(name, p) == { k \in 1..Len(wr.calls) : wr.calls[k] = Call(name, p) }

\* C20: two write operations run at the same time from one account are not
\* coordinated on the nonce: an operation reads the pending nonce whatever
\* the other one holds, so that operations reading before any transaction is
\* sent read the same nonce; each sends its transaction with the nonce it
\* read, whatever the other one has sent.
C20_NonceRace ==
    /\ \A p \in Procs :
          /\ wr.ops[p].pc = "nonce" => ENABLED ConcurrentPendingNonceAt(p)
          /\ wr.ops[p].pc = "send" => ENABLED ConcurrentSend(p)
          /\ \A k \in CallsBy("SendTransaction", p), n \in CallsBy("PendingNonceAt", p) :
                /\ n < k
                /\ (\A q \in Procs \ {p} : \A j \in CallsBy("SendTransaction", q) : n < j) =>
                     \A i \in 1..Len(wr.sent) :
                        wr.sent[i].proc = p => wr.sent[i].tx.Nonce = FirstNonce
    /\ \A p, q \in Procs :
          (wr.sent = << >> /\ wr.ops[p].pc \in {"gasPrice", "send"}
             /\ wr.ops[q].pc \in {"gasPrice", "send"}) =>
               wr.ops[p].auth.Nonce = wr.ops[q].auth.Nonce
    /\ \A i \in 1..Len(wr.sent) :
          wr.sent[i].tx.Nonce = wr.ops[wr.sent[i].proc].auth.Nonce

\* Both operations read the nonce before either sent, and both sent a
\* transaction with that nonce.
C20_Witness ==
    /\ Len(wr.sent) = 2
    /\ wr.sent[1].proc # wr.sent[2].proc
    /\ wr.sent[1].tx.Nonce = wr.sent[2].tx.Nonce
    /\ \A p, q \in Procs :
          \A n \in CallsBy("PendingNonceAt", p), k \in CallsBy("SendTransaction", q) : n < k
    /\ \A p \in Procs : CallsBy("PendingNonceAt", p) # {} /\ CallsBy("SendTransaction", p) # {}

----------------------------------------------------------------------------
(* The connection configuration of a chain: CreateChainConfig builds the   *)
(* map of a chain, createConnectionUrl turns a map into the URL to dial.   *)
(* A string is the sequence of its characters; a value of the map carries  *)
(* its dynamic type.                                                       *)

NilValue == [kind |-> "nil"]
StringValue(str) == [kind |-> "string", val |-> str]
IntValue(n) == [kind |-> "int", val |-> n]
Uint64Value(n) == [kind |-> "uint64", val |-> n]

DigitChars == << "0", "1", "2", "3", "4", "5", "6", "7", "8", "9" >>

\* The verb %d of fmt.Sprintf for a number that is not negative.
RECURSIVE Decimal(_)
Decimal(n) ==
    IF n < 10 THEN << DigitChars[n + 1] >>
    ELSE Append(Decimal(n \div 10), DigitChars[(n % 10) + 1])

IsDigit(c) == \E d \in 1..Len(DigitChars) : DigitChars[d] = c
DigitValue(c) == (CHOOSE d \in 1..Len(DigitChars) : DigitChars[d] = c) - 1

\* strconv.ParseUint(str, 10, 64) for the numbers a port string can hold:
\* whether the string is a number, and which.
RECURSIVE ParseDigits(_, _)
ParseDigits(str, acc) ==
    IF Len(str) = 0 THEN acc ELSE ParseDigits(Tail(str), 10 * acc + DigitValue(str[1]))
ParseUint(str) ==
    IF Len(str) = 0 \/ \E k \in 1..Len(str) : ~IsDigit(str[k])
    THEN [ok |-> FALSE, val |-> 0]
    ELSE [ok |-> TRUE, val |-> ParseDigits(str, 0)]

\* Lines 125-137.
CreateChainConfig(connectionType, connectionUrl, connectionPort) ==
    [url |-> StringValue(connectionUrl),
     type |-> IF connectionType # << >> THEN StringValue(connectionType) ELSE NilValue,
     port |-> IF connectionPort # 0 THEN Uint64Value(connectionPort) ELSE NilValue]

UrlOk(fullUrl) == [kind |-> "ok", url |-> fullUrl, err |-> ""]
UrlErr(e) == [kind |-> "err", url |-> << >>, err |-> e]
UrlPanic == [kind |-> "panic", url |-> << >>, err |-> "interface conversion"]

\* Lines 222-249.  A type assertion without the ok form panics when the
\* value has another dynamic type.
createConnectionUrl(chainConfig) ==
    IF chainConfig.type.kind \notin {"nil", "string"} THEN UrlPanic
    ELSE LET scheme == IF chainConfig.type.kind # "nil"
                       THEN chainConfig.type.val \o << ":", "/", "/" >>
                       ELSE << "h", "t", "t", "p", "s", ":", "/", "/" >>
         IN  IF chainConfig.url.kind = "nil" THEN UrlErr("no url specified")
             ELSE IF chainConfig.url.kind # "string" THEN UrlPanic
             ELSE LET fullUrl == scheme \o chainConfig.url.val
                  IN  IF chainConfig.port.kind = "nil" THEN UrlOk(fullUrl)
                      ELSE IF chainConfig.port.kind = "int"
                      THEN UrlOk(fullUrl \o << ":" >> \o Decimal(chainConfig.port.val))
                      ELSE IF chainConfig.port.kind # "string" THEN UrlPanic
                      ELSE LET port == ParseUint(chainConfig.port.val)
                           IN  IF ~port.ok THEN UrlErr("llegal port")
                               ELSE UrlOk(fullUrl \o << ":" >> \o Decimal(port.val))

\* The configuration is built from a type, a URL and a port.
BuildConfig ==
    /\ cdc.pc = "create"
    /\ cdc' = [cdc EXCEPT !.pc = "url",
                          !.config = CreateChainConfig(cdc.args.type, cdc.args.url,
                                                       cdc.args.port)]
    /\ UNCHANGED << loc, prf, wr >>

\* Line 153: the URL of the configuration is made.
ConnectionUrl ==
    /\ cdc.pc = "url"
    /\ cdc' = [cdc EXCEPT !.pc = "done", !.result = createConnectionUrl(cdc.config)]
    /\ UNCHANGED << loc, prf, wr >>

MaxPort == 8545

ConnectionTypes == { << >>, << "w", "s" >>, << "h", "t", "t", "p" >> }
ConnectionUrls == { << >>, << "a", ".", "b" >>, << "l", "o", "c", "a", "l", "h", "o", "s", "t" >> }
ConnectionPorts == { 0, 1, 80, MaxPort }

\* The values a configuration file gives a port: none, a number, a string.
FilePorts ==
    { NilValue, IntValue(0), IntValue(MaxPort), StringValue(Decimal(MaxPort)),
      StringValue(<< "8", "0", "a" >>), StringValue(<< >>) }

NoConfig == [url |-> NilValue, type |-> NilValue, port |-> NilValue]
NoConfigArgs == [type |-> << >>, url |-> << >>, port |-> 0]

InitConfig ==
    /\ loc = Idle
    /\ prf = Idle
    /\ wr = Idle
    /\ \/ \E t \in ConnectionTypes, u \in ConnectionUrls, p \in ConnectionPorts :
            cdc = [pc |-> "create", from |-> "CreateChainConfig",
                   args |-> [type |-> t, url |-> u, port |-> p],
                   config |-> NoConfig, result |-> UrlErr("")]
       \/ \E t \in ConnectionTypes, u \in ConnectionUrls, p \in FilePorts,
             hasUrl \in BOOLEAN :
            cdc = [pc |-> "url", from |-> "file", args |-> NoConfigArgs,
                   config |-> [url |-> IF hasUrl THEN StringValue(u) ELSE NilValue,
                               type |-> IF t # << >> THEN StringValue(t) ELSE NilValue,
                               port |-> p],
                   result |-> UrlErr("")]

NextConfig == BuildConfig \/ ConnectionUrl

SpecConfig == InitConfig /\ [][NextConfig]_vars

\* C31: for every configuration made by CreateChainConfig(type, url, port),
\* createConnectionUrl returns without error the string type://url, followed
\* by :port when the port is not zero, the type being https when the given
\* one is empty; a configuration without a url gives the no-url-specified
\* error.
C31_ConnectionUrl ==
    cdc.pc = "done" =>
        /\ cdc.from = "CreateChainConfig" =>
              LET a == cdc.args
                  scheme == IF a.type = << >> THEN << "h", "t", "t", "p", "s" >> ELSE a.type
              IN  /\ cdc.result.kind = "ok"
                  /\ cdc.result.url
                       = scheme \o << ":", "/", "/" >> \o a.url
                           \o (IF a.port # 0 THEN << ":" >> \o Decimal(a.port) ELSE << >>)
        /\ cdc.config.url.kind = "nil" =>
              /\ cdc.result.kind = "err"
              /\ cdc.result.err = "no url specified"

====
